---- MODULE Spec2Model ----
(***************************************************************************)
(* A model of the synchronization core of claude-context:                  *)
(*   - MilvusVectorDatabase.atomicFileUpdate (SpecAFU),                    *)
(*   - FileSystemWatcher's debounce and enable/disable (SpecWatcher),      *)
(*   - the tool handlers, the freshness gate, the FileSynchronizer and the *)
(*     three mutating workflows (SpecSync).                                *)
(* The three parts share one module; every specification leaves the        *)
(* variables of the other parts at their initial values.                   *)
(***************************************************************************)
EXTENDS Integers, FiniteSets, Sequences, TLC

(***************************************************************************)
(* State                                                                   *)
(***************************************************************************)

\* the vector store collection and one call of atomicFileUpdate
VARIABLES
    collection,       \* [ChunkIds -> RowStates]: the rows of the collection, by primary key
    afuPath,          \* relativePath argument of atomicFileUpdate
    newChunks,        \* newChunks argument: the set of chunk ids to insert
    maxRetries,       \* maxRetries argument
    afuPc,            \* where the call is
    attempt,          \* local variable attempt
    backupChunks,     \* local variable backupChunks (ids of the rows the last successful query returned)
    afuResult,        \* "none" | "success" | "failure" | "thrown"
    chunksProcessed,  \* chunksProcessed of the returned value
    preCall,          \* history: collection when the call started
    rollbacks,        \* history: number of rollback inserts attempted
    rollbackFailed,   \* history: some rollback insert threw
    readerSaw         \* [read, ids]: whether a concurrent reader has queried afuPath, and what its last query returned

afuVars == <<collection, afuPath, newChunks, maxRetries, afuPc, attempt, backupChunks,
             afuResult, chunksProcessed, preCall, rollbacks, rollbackFailed, readerSaw>>

\* one FileSystemWatcher
VARIABLES
    isEnabled,       \* this.isEnabled
    watcher,         \* this.watcher: "null", "open" (subscribed) or "closing" (close() called)
    closers,         \* disable() calls awaiting this.watcher.close()
    debounceMap,     \* this.debounceMap: [Keys -> timer handle or NoTimer]
    timers,          \* handles of the timeouts that are scheduled: not fired, not cleared
    timerKey,        \* the debounceKey captured by each timeout's callback
    running,         \* timeouts whose callback is awaiting processFileChange
    nextTimer,       \* next fresh timer handle
    fired,           \* history: timeouts that fired (each dispatched one single-file update)
    timerBurst,      \* history: the first timer of the burst of same-key events a timer belongs to
    lastEvTimer,     \* history: the timer set by the latest event of each key
    disabledAt,      \* history: nextTimer when disable() last ran
    startedStale     \* history: a single-file update was started, while the watcher was
                     \* disabled, for an event received before that disable()

wVars == <<isEnabled, watcher, closers, debounceMap, timers, timerKey, running, nextTimer,
           fired, timerBurst, lastEvTimer, disabledAt, startedStale>>

\* one indexed codebase: the tool handlers, its FileSynchronizer, the snapshot
\* manager's status and the collection, seen through the tracked files
VARIABLES
    disk,            \* [Files -> 0..MaxVer]: the version of each file on disk (NoFile: absent)
    nextVer,         \* the version the next write produces
    fileHashes,      \* FileSynchronizer.fileHashes: the hash stored for each file (NoFile: none)
    mtimeCache,      \* FileSynchronizer.mtimeCache: the mtime cached for each file (NoFile: none)
    snapshotSaved,   \* the synchronizer's snapshot file exists
    fullScanDue,     \* lastFullScan === 0 or older than FULL_SCAN_INTERVAL
    hasSync,         \* context.getSynchronizers() has the codebase's synchronizer
    hasCollection,   \* the codebase's collection exists in the vector store
    store,           \* [Files -> 0..MaxVer]: the version whose chunks the collection holds (NoFile: none)
    status,          \* snapshot manager: "not_found", "indexing", "indexed" or "indexfailed"
    lastSyncCache,   \* ToolHandlers.lastSyncCache entry of the codebase
    lock,            \* holder of the controller's codebase lock, or "none"
    aPc,             \* background indexing (workflow A)
    sPc,             \* handleSearchCode
    sq,              \* handleSearchCode: what its gate saw and did
    nPc,             \* handleSyncNow
    cPc,             \* the watcher's processFileChange (workflow C)
    rScan,           \* [Procs -> ...]: the changes each reindexByChange call detected
    fresh,           \* history: a workflow B or C that began after the last change of the
                     \* tree has completed successfully, and nothing was re-indexed since
    dirty,           \* history: [Procs -> BOOLEAN], the tree changed since the caller's workflow began
    syncHistory,     \* ToolHandlers.syncHistory: [Codebases -> sequence of audit entries]
    appended         \* history: [Codebases -> Nat], the entries ever appended for the codebase

\* the audit trail
hVars == <<syncHistory, appended>>

sVars == <<disk, nextVer, fileHashes, mtimeCache, snapshotSaved, fullScanDue, hasSync,
           hasCollection, store, status, lastSyncCache, lock, aPc, sPc, sq, nPc,
           cPc, rScan, fresh, dirty, syncHistory, appended>>

\* one call of MilvusVectorDatabase.bulkDelete
VARIABLES
    bdIds,           \* the ids argument, a sequence
    bdBatchSize,     \* the batchSize argument
    bdMaxRetries,    \* the maxRetries argument
    bdPc,            \* where the call is: "idle", "enter", "for", "while", "done", "thrown"
    bdI,             \* the loop variable i (0-based offset of the batch in ids)
    bdAttempt,       \* the batch's attempt counter
    deletedCount,    \* deletedCount
    failedIds,       \* failedIds, a sequence
    bdTried,         \* history: client.delete calls issued for the batch starting at each offset
    bdOk             \* history: whether a client.delete of the batch at each offset succeeded

bdVars == <<bdIds, bdBatchSize, bdMaxRetries, bdPc, bdI, bdAttempt, deletedCount, failedIds,
            bdTried, bdOk>>

\* one call of MilvusVectorDatabase.batchFileUpdates
VARIABLES
    fileUpdates,     \* the fileUpdates argument: a sequence of [relativePath, chunks (how many)]
    bfuBatchSize,    \* the batchSize argument
    bfuPc,           \* where the call is: "idle", "for", "await", "done"
    bfuI,            \* the loop variable i (0-based offset of the batch in fileUpdates)
    bfuInFlight,     \* the entries (by position) whose atomicFileUpdate has not settled
    successful,      \* successful
    totalChunks,     \* totalChunks
    failed,          \* failed: a sequence of [relativePath, error]
    bfuRan,          \* history: atomicFileUpdate calls started for each entry
    bfuResult        \* history: how each entry's atomicFileUpdate settled ("none": not yet)

bfuVars == <<fileUpdates, bfuBatchSize, bfuPc, bfuI, bfuInFlight, successful, totalChunks,
             failed, bfuRan, bfuResult>>

\* the process-wide connection pool of MilvusVectorDatabase and its adapters
VARIABLES
    instancePool,         \* MilvusVectorDatabase.instancePool: [PoolKeys -> entry or NoPoolEntry]
    poolCleanupInterval,  \* whether MilvusVectorDatabase.poolCleanupInterval is set
    reaperDue,            \* POOL_CLEANUP_INTERVAL has passed since the reaper last ran
    adKey,                \* each adapter's instanceKey
    adInit,               \* each adapter's initializationPromise: "none" (not constructed),
                          \* "pending", "ready" (this.client set) or "failed"
    adDropped,            \* whether the adapter has been dropped by its owner
    clientsOpen           \* MilvusClient objects created for each key (none is ever closed)

poolVars == <<instancePool, poolCleanupInterval, reaperDue, adKey, adInit, adDropped,
              clientsOpen>>

\* what the FileSystemWatcher's 'error' handler has written
VARIABLE
    watcherErrorLogged    \* whether console.error('[FileWatcher] Watcher error:', ...) has run

\* one search_code call seen from its extensionFilter argument
VARIABLES
    extensionFilter,      \* the extensionFilter argument: a sequence of entries
    efPc,                 \* "idle", "called", "rejected" (error returned) or "searching"
    filterExpr            \* the entries of `fileExtension in [...]`, or NoFilterExpr

efVars == <<extensionFilter, efPc, filterExpr>>

\* the tool handlers across codebases: the snapshot manager's status records, the
\* sync cache, the audit trail and the result each tool call returns
VARIABLES
    codebaseInfo,         \* snapshot manager: [Codebases -> status record]
    savedSnapshot,        \* the records saveCodebaseSnapshot last wrote
    cloudRows,            \* each codebase's collection: "none", "empty" or "rows"
    indexingTask,         \* each codebase's startBackgroundIndexing promise: "none",
                          \* "running", "resolved" or "rejected"
    reportedProgress,     \* history: the percentage last passed to setCodebaseIndexing
                          \* for the codebase's task
    cachedPaths,          \* the keys of ToolHandlers.lastSyncCache
    auditTrail,           \* ToolHandlers.syncHistory: [Codebases -> sequence of entries]
    toolResult            \* what the last tool call returned: [tool, path, text, isError]

thVars == <<codebaseInfo, savedSnapshot, cloudRows, indexingTask, reportedProgress,
            cachedPaths, auditTrail, toolResult>>

\* the freshness gate of one indexed codebase under concurrent search_code calls
VARIABLES
    gCache,          \* the codebase's entry of ToolHandlers.lastSyncCache
    gPc,             \* [Searchers -> where the call is]: "idle", "checking", "reindexWait",
                     \* "reindexing" or "searching"
    gElapsed,        \* [Searchers -> time since the call's quickSyncCheck read `now`]
    gChanged,        \* the tree differs from the synchronizer's stored hashes
    winAge,          \* history: time since the change check that opened the cache window
    winChecks,       \* history: change checks started in the window
    winReindexes     \* history: reindexByChange calls started in the window

gVars == <<gCache, gPc, gElapsed, gChanged, winAge, winChecks, winReindexes>>

\* Context.fileWatchers: the codebases whose FileSystemWatcher is enabled
VARIABLES realtimeSync
rtVars == <<realtimeSync>>

\* the adapters of the connection pool seen from their configurations
VARIABLES
    adConfig,        \* each adapter's this.config, or NoConfig before it is constructed
    adClient,        \* each adapter's this.client, or NoClient
    pooledClient     \* instancePool, by generated key: the client of the entry, or NoClient

keyVars == <<adConfig, adClient, pooledClient>>

\* what the actions of one part leave unchanged
notAfu == <<wVars, sVars, bdVars, bfuVars, poolVars, watcherErrorLogged, efVars, thVars,
    gVars, rtVars, keyVars>>
notW == <<afuVars, sVars, bdVars, bfuVars, poolVars, watcherErrorLogged, efVars, thVars,
    gVars, rtVars, keyVars>>
notS == <<afuVars, wVars, bdVars, bfuVars, poolVars, watcherErrorLogged, efVars, thVars,
    gVars, rtVars, keyVars>>
notBd == <<afuVars, wVars, sVars, bfuVars, poolVars, watcherErrorLogged, efVars, thVars,
    gVars, rtVars, keyVars>>
notBfu == <<afuVars, wVars, sVars, bdVars, poolVars, watcherErrorLogged, efVars, thVars,
    gVars, rtVars, keyVars>>
notPool == <<afuVars, wVars, sVars, bdVars, bfuVars, watcherErrorLogged, efVars, thVars,
    gVars, rtVars, keyVars>>
notWatcherError == <<afuVars, sVars, bdVars, bfuVars, poolVars, efVars, thVars, gVars, rtVars, keyVars>>
notEf == <<afuVars, wVars, sVars, bdVars, bfuVars, poolVars, watcherErrorLogged, thVars,
    gVars, rtVars, keyVars>>
notTh == <<afuVars, wVars, sVars, bdVars, bfuVars, poolVars, watcherErrorLogged, efVars,
    gVars, rtVars, keyVars>>

notG == <<afuVars, wVars, sVars, bdVars, bfuVars, poolVars, watcherErrorLogged, efVars,
    thVars, rtVars, keyVars>>

notRt == <<afuVars, wVars, sVars, bdVars, bfuVars, poolVars, watcherErrorLogged, efVars,
    thVars, gVars, keyVars>>

notKey == <<afuVars, wVars, sVars, bdVars, bfuVars, poolVars, watcherErrorLogged, efVars,
    thVars, gVars, rtVars>>

vars == <<afuVars, wVars, sVars, bdVars, bfuVars, poolVars, watcherErrorLogged, efVars,
          thVars, gVars, rtVars, keyVars>>

(***************************************************************************)
(* Part 1: the vector store collection and atomicFileUpdate                *)
(***************************************************************************)

\* Bound: chunks per file (chunk ids are hashes of path, lines and content,
\* so an id belongs to one path).
MaxChunk == 2
\* Bound: largest maxRetries argument tried (the code's default is 3).
MaxRetriesArg == 3

Paths == {"p", "q"}
\* id of a chunk: the path it was cut from and a number standing for
\* the hash of (startLine, endLine, content)
ChunkIds == [path : Paths, n : 1..MaxChunk]
\* what the collection holds under a primary key: nothing, a row whose metadata
\* column is the indexer's JSON (codebasePath, language, ...), or a row whose
\* metadata column is "{}"
RowStates == {"absent", "full", "empty"}

\* query(collection, `relativePath == "p"`, [...]): the ids of the rows of path p
QueryByPath(coll, p) == {c \in ChunkIds : c.path = p /\ coll[c] # "absent"}

\* backupChunks.map(chunk => chunk.id).filter(id => id): every id is a non-empty string
ExistingIds(backup) == {c \in backup : TRUE}

Delete_Skip(coll, ids) == coll

\* delete(collection, ids): `id in [...]` removes the rows with these primary keys
Delete(coll, ids) == [c \in ChunkIds |-> IF c \in ids THEN "absent" ELSE coll[c]]

\* insertHybrid(collection, documents): one row per document under its primary key,
\* metadata = JSON.stringify(doc.metadata)
InsertHybrid(coll, ids, meta) == [c \in ChunkIds |-> IF c \in ids THEN meta ELSE coll[c]]

RollbackMeta_Keep(coll, c) == coll[c]

\* the rollback documents are built with metadata: {}
RollbackMeta(coll, c) == "empty"

\* the rows of the path that is updated are in any state; the rows of the other
\* paths, which the call must leave alone, are absent or full
AfuInit ==
    /\ collection \in {coll \in [ChunkIds -> RowStates] :
                          \A c \in ChunkIds : c.path # "p" => coll[c] # "empty"}
    /\ afuPath = "p"
    /\ newChunks \in SUBSET {c \in ChunkIds : c.path = "p"}
    /\ maxRetries \in 0..MaxRetriesArg
    /\ afuPc = "idle"
    /\ attempt = 0
    /\ backupChunks = {}
    /\ afuResult = "none"
    /\ chunksProcessed = 0
    /\ preCall = collection
    /\ rollbacks = 0
    /\ rollbackFailed = FALSE
    /\ readerSaw = [read |-> FALSE, ids |-> {}]

\* return { success: true, chunksProcessed: newChunks.length }
AfuReturnSuccess ==
    /\ afuPc' = "done"
    /\ afuResult' = "success"
    /\ chunksProcessed' = Cardinality(newChunks)

\* return { success: false, chunksProcessed: 0, error }
AfuReturnFailure ==
    /\ afuPc' = "done"
    /\ afuResult' = "failure"
    /\ chunksProcessed' = 0

\* step 3 is entered only if (newChunks.length > 0); otherwise the attempt is complete
AfuAfterDelete ==
    IF newChunks # {}
    THEN afuPc' = "insert" /\ UNCHANGED <<afuResult, chunksProcessed>>
    ELSE AfuReturnSuccess

\* the call begins: ensureInitialized and ensureLoaded run outside the try block,
\* so their exception leaves the call; then `while (attempt < maxRetries)`
AfuStart ==
    /\ afuPc = "idle"
    /\ \/ /\ afuPc' = "done"
          /\ afuResult' = "thrown"
          /\ UNCHANGED chunksProcessed
       \/ /\ attempt < maxRetries
          /\ afuPc' = "query"
          /\ UNCHANGED <<afuResult, chunksProcessed>>
       \/ /\ ~(attempt < maxRetries)
          /\ AfuReturnFailure
    /\ UNCHANGED <<collection, afuPath, newChunks, maxRetries, attempt, backupChunks,
                   preCall, rollbacks, rollbackFailed, readerSaw>>
    /\ UNCHANGED notAfu

\* step 1 succeeds: backupChunks = await this.query(...); step 2 is entered only
\* if there is something to delete
AfuQuery ==
    /\ afuPc = "query"
    /\ backupChunks' = QueryByPath(collection, afuPath)
    /\ IF ExistingIds(backupChunks') # {}
       THEN afuPc' = "delete" /\ UNCHANGED <<afuResult, chunksProcessed>>
       ELSE AfuAfterDelete
    /\ UNCHANGED <<collection, afuPath, newChunks, maxRetries, attempt,
                   preCall, rollbacks, rollbackFailed, readerSaw>>
    /\ UNCHANGED notAfu

\* step 2 succeeds: await this.delete(collectionName, existingIds)
AfuDelete ==
    /\ afuPc = "delete"
    /\ collection' = Delete(collection, ExistingIds(backupChunks))
    /\ AfuAfterDelete
    /\ UNCHANGED <<afuPath, newChunks, maxRetries, attempt, backupChunks,
                   preCall, rollbacks, rollbackFailed, readerSaw>>
    /\ UNCHANGED notAfu

\* step 3 succeeds: await this.insertHybrid(collectionName, newChunks)
AfuInsert ==
    /\ afuPc = "insert"
    /\ collection' = InsertHybrid(collection, newChunks, "full")
    /\ AfuReturnSuccess
    /\ UNCHANGED <<afuPath, newChunks, maxRetries, attempt, backupChunks,
                   preCall, rollbacks, rollbackFailed, readerSaw>>
    /\ UNCHANGED notAfu

\* the catch block returns only if (attempt > maxRetries)
AfuStepThrows_OneMore ==
    /\ afuPc \in {"query", "delete", "insert"}
    /\ attempt' = attempt + 1
    /\ IF backupChunks # {} /\ attempt' < maxRetries
       THEN afuPc' = "rollback" /\ UNCHANGED <<afuResult, chunksProcessed>>
       ELSE IF attempt' > maxRetries
            THEN AfuReturnFailure
            ELSE afuPc' = "backoff" /\ UNCHANGED <<afuResult, chunksProcessed>>
    /\ UNCHANGED <<collection, afuPath, newChunks, maxRetries, backupChunks,
                   preCall, rollbacks, rollbackFailed, readerSaw>>
    /\ UNCHANGED notAfu

\* one of the three awaited store calls throws (the call has no effect on the
\* collection): the catch block counts the attempt and decides what follows
AfuStepThrows ==
    /\ afuPc \in {"query", "delete", "insert"}
    /\ attempt' = attempt + 1
    /\ IF backupChunks # {} /\ attempt' < maxRetries
       THEN afuPc' = "rollback" /\ UNCHANGED <<afuResult, chunksProcessed>>
       ELSE IF attempt' >= maxRetries
            THEN AfuReturnFailure
            ELSE afuPc' = "backoff" /\ UNCHANGED <<afuResult, chunksProcessed>>
    /\ UNCHANGED <<collection, afuPath, newChunks, maxRetries, backupChunks,
                   preCall, rollbacks, rollbackFailed, readerSaw>>
    /\ UNCHANGED notAfu

\* the rollback insert: it succeeds, or it throws and is only logged; a rollback
\* is attempted only while attempt < maxRetries, so the backoff follows
AfuRollback ==
    /\ afuPc = "rollback"
    /\ \/ /\ collection' = [c \in ChunkIds |->
                               IF c \in backupChunks THEN RollbackMeta(collection, c)
                                                     ELSE collection[c]]
          /\ UNCHANGED rollbackFailed
       \/ /\ rollbackFailed' = TRUE
          /\ UNCHANGED collection
    /\ rollbacks' = rollbacks + 1
    /\ afuPc' = "backoff"
    /\ UNCHANGED <<afuPath, newChunks, maxRetries, attempt, backupChunks, afuResult,
                   chunksProcessed, preCall, readerSaw>>
    /\ UNCHANGED notAfu

\* the exponential backoff delay has passed: the loop's next iteration
AfuBackoff ==
    /\ afuPc = "backoff"
    /\ afuPc' = "query"
    /\ UNCHANGED <<collection, afuPath, newChunks, maxRetries, attempt, backupChunks,
                   afuResult, chunksProcessed, preCall, rollbacks, rollbackFailed, readerSaw>>
    /\ UNCHANGED notAfu

\* another caller of the adapter queries `relativePath == p` while the update runs
ReaderQuery ==
    /\ afuPc \notin {"idle", "done"}
    /\ readerSaw' = [read |-> TRUE, ids |-> QueryByPath(collection, afuPath)]
    /\ UNCHANGED <<collection, afuPath, newChunks, maxRetries, afuPc, attempt, backupChunks,
                   afuResult, chunksProcessed, preCall, rollbacks, rollbackFailed>>
    /\ UNCHANGED notAfu

AfuNext ==
    \/ AfuStart
    \/ AfuQuery
    \/ AfuDelete
    \/ AfuInsert
    \/ AfuStepThrows
    \/ AfuRollback
    \/ AfuBackoff
    \/ ReaderQuery

\* the ids stored for the updated path before the call
PreCallIds == QueryByPath(preCall, afuPath)

\* C1: after atomicFileUpdate returns success=true, the ids stored with
\* relativePath == p are exactly the ids of newChunks (no previous chunk of p is
\* left; empty newChunks leaves none) and chunksProcessed is the number of
\* newChunks, whatever steps failed and were retried inside the call.
C1_SuccessStoresExactlyNewChunks ==
    afuResult = "success" =>
        /\ QueryByPath(collection, afuPath) = newChunks
        /\ chunksProcessed = Cardinality(newChunks)

\* C1's case: a call that succeeded after a failed attempt and a rollback, replacing
\* stored chunks by other ones
C1_Witness ==
    /\ afuResult = "success"
    /\ attempt >= 1
    /\ rollbacks >= 1
    /\ newChunks # {}
    /\ PreCallIds \ newChunks # {}

\* C2: after atomicFileUpdate returns success=false in a run where every rollback
\* insert it attempted succeeded, the chunks stored for relativePath == p are the
\* chunks stored before the call.
C2_FailureRestoresPreCallChunks ==
    (afuResult = "failure" /\ ~rollbackFailed) =>
        QueryByPath(collection, afuPath) = PreCallIds

\* C6: a reader querying relativePath == p while atomicFileUpdate runs sees the
\* complete pre-update chunk set or the complete post-update chunk set, never an
\* intermediate state.
C6_ReaderSeesPreOrPostSet ==
    readerSaw.read => readerSaw.ids \in {PreCallIds, newChunks}

\* C40: the rollback of atomicFileUpdate is a round trip of the backup: every
\* row a rollback insert writes equals the row stored before the call in all
\* fields, the metadata column (with codebasePath) included.
C40_RollbackRoundTrip ==
    [][(AfuRollback /\ ~rollbackFailed') =>
          \A c \in backupChunks : collection'[c] = preCall[c]]_vars

\* one call of atomicFileUpdate followed alone, without other callers
AfuCallNext ==
    \/ AfuStart
    \/ AfuQuery
    \/ AfuDelete
    \/ AfuInsert
    \/ AfuStepThrows
    \/ AfuRollback
    \/ AfuBackoff

\* C31: atomicFileUpdate with maxRetries >= 1 runs its steps only while fewer than
\* maxRetries attempts have failed (at most maxRetries attempts), each attempt
\* going from the backup query to the delete to the insert; a step's exception
\* never leaves the call, which returns success=false with chunksProcessed 0 only
\* when the last allowed attempt threw, and success=true only when an attempt's
\* last step completed; and every call that has begun returns.
C31_BoundedAttemptsAndTermination ==
    /\ [][maxRetries >= 1 =>
            /\ afuPc' \in {"query", "delete", "insert"} => attempt' < maxRetries
            /\ afuPc' = "query" => afuPc \in {"idle", "backoff", "query"}
            /\ afuPc' = "delete" => afuPc \in {"query", "delete"}
            /\ afuPc' = "insert" => afuPc \in {"query", "delete", "insert"}
            /\ (afuResult' = "thrown" /\ afuResult # "thrown") => afuPc = "idle"
            /\ (afuResult' = "failure" /\ afuResult # "failure") =>
                  /\ AfuStepThrows
                  /\ attempt' = maxRetries
                  /\ chunksProcessed' = 0
            /\ (afuResult' = "success" /\ afuResult # "success") =>
                  /\ afuPc \in {"query", "delete", "insert"}
                  /\ attempt' = attempt
                  /\ attempt < maxRetries
                  /\ afuPc = "query" => newChunks = {} /\ backupChunks' = {}
                  /\ afuPc = "delete" => newChunks = {}]_vars
    /\ (afuPc # "idle") ~> (afuPc = "done")

\* C31's case: a call that failed after maxRetries >= 2 attempts, with a rollback
\* between them
C31_Witness ==
    /\ afuResult = "failure"
    /\ maxRetries >= 2
    /\ attempt = maxRetries
    /\ rollbacks >= 1

(***************************************************************************)
(* Part 2: FileSystemWatcher: debounce timers, enable and disable          *)
(***************************************************************************)

\* Bound: timers the watcher creates in one run (one per accepted event)
MaxTimers == 4
\* Bound: disable() calls that may be awaiting watcher.close() at once
MaxClosers == 2

EventKinds == {"add", "change", "unlink"}
WatchedFiles == {"a.ts"}
\* debounceKey = `${event}:${filePath}`
Keys == EventKinds \X WatchedFiles
TimerIds == 1..MaxTimers
NoTimer == 0

WInit ==
    /\ isEnabled = FALSE
    /\ watcher = "null"
    /\ closers = 0
    /\ debounceMap = [k \in Keys |-> NoTimer]
    /\ timers = {}
    /\ timerKey = [t \in TimerIds |-> <<"none", "none">>]
    /\ running = {}
    /\ nextTimer = 1
    /\ fired = {}
    /\ timerBurst = [t \in TimerIds |-> NoTimer]
    /\ lastEvTimer = [k \in Keys |-> NoTimer]
    /\ disabledAt = 1
    /\ startedStale = FALSE
    /\ watcherErrorLogged = FALSE

\* getStats().pendingOperations = this.debounceMap.size
PendingOperations == Cardinality({k \in Keys : debounceMap[k] # NoTimer})

\* disable() has returned and enable() has not been called since
DisabledAndReturned == ~isEnabled /\ closers = 0

\* if (this.debounceMap.has(debounceKey)) clearTimeout(this.debounceMap.get(debounceKey))
ClearPrevious(k) == timers \ {debounceMap[k]}

\* enable(): nothing if already enabled; else setupWatcher() (which returns early
\* while this.watcher is set) and isEnabled = true
Enable ==
    /\ \/ /\ isEnabled
          /\ UNCHANGED <<isEnabled, watcher>>
       \/ /\ ~isEnabled
          /\ watcher' = IF watcher = "null" THEN "open" ELSE watcher
          /\ isEnabled' = TRUE
    /\ UNCHANGED <<closers, debounceMap, timers, timerKey, running, nextTimer,
                   fired, timerBurst, lastEvTimer, disabledAt, startedStale>>
    /\ UNCHANGED notW

\* the subscription delivers an event to handleFileEvent (a closed subscription
\* delivers none, and this.watcher is open only while isEnabled): unsupported
\* extensions are dropped, otherwise the key's previous timeout is cleared and a
\* new one of 500 ms is stored under the key
FsEvent(k, supported) ==
    /\ watcher = "open"
    /\ isEnabled
    /\ \/ /\ ~supported
          /\ UNCHANGED <<debounceMap, timers, timerKey, nextTimer, timerBurst, lastEvTimer>>
       \/ /\ supported
          /\ nextTimer <= MaxTimers
          /\ timers' = ClearPrevious(k) \cup {nextTimer}
          /\ debounceMap' = [debounceMap EXCEPT ![k] = nextTimer]
          /\ timerKey' = [timerKey EXCEPT ![nextTimer] = k]
          /\ timerBurst' = [timerBurst EXCEPT ![nextTimer] =
                               IF lastEvTimer[k] \in timers THEN timerBurst[lastEvTimer[k]]
                                                            ELSE nextTimer]
          /\ lastEvTimer' = [lastEvTimer EXCEPT ![k] = nextTimer]
          /\ nextTimer' = nextTimer + 1
    /\ UNCHANGED <<isEnabled, watcher, closers, running, fired, disabledAt, startedStale>>
    /\ UNCHANGED notW

\* a timeout's 500 ms have passed (timeouts of equal delay fire in the order they
\* were set): its callback starts processFileChange
TimerFires(t) ==
    /\ t \in timers
    /\ \A u \in timers : t <= u
    /\ timers' = timers \ {t}
    /\ running' = running \cup {t}
    /\ fired' = fired \cup {t}
    /\ startedStale' = (startedStale \/ (DisabledAndReturned /\ t < disabledAt))
    /\ UNCHANGED <<isEnabled, watcher, closers, debounceMap, timerKey, nextTimer,
                   timerBurst, lastEvTimer, disabledAt>>
    /\ UNCHANGED notW

\* processFileChange has resolved (it catches every error of the update itself):
\* this.debounceMap.delete(debounceKey)
ProcessDone(t) ==
    /\ t \in running
    /\ running' = running \ {t}
    /\ debounceMap' = [debounceMap EXCEPT ![timerKey[t]] = NoTimer]
    /\ UNCHANGED <<isEnabled, watcher, closers, timers, timerKey, nextTimer,
                   fired, timerBurst, lastEvTimer, disabledAt, startedStale>>
    /\ UNCHANGED notW

\* disable() up to its await: nothing if already disabled; else isEnabled = false,
\* every timeout in the map is cleared, the map is emptied and, if this.watcher is
\* set, close() is called on it
DisableBegin ==
    /\ \/ /\ ~isEnabled
          /\ UNCHANGED <<isEnabled, watcher, closers, debounceMap, timers, disabledAt>>
       \/ /\ isEnabled
          /\ isEnabled' = FALSE
          /\ timers' = timers \ {debounceMap[k] : k \in Keys}
          /\ debounceMap' = [k \in Keys |-> NoTimer]
          /\ disabledAt' = nextTimer
          /\ IF watcher # "null"
             THEN closers < MaxClosers /\ watcher' = "closing" /\ closers' = closers + 1
             ELSE UNCHANGED <<watcher, closers>>
    /\ UNCHANGED <<timerKey, running, nextTimer, fired, timerBurst, lastEvTimer, startedStale>>
    /\ UNCHANGED notW

\* the awaited close() has resolved: this.watcher = null, and disable() returns
DisableEnd ==
    /\ closers > 0
    /\ watcher' = "null"
    /\ closers' = closers - 1
    /\ UNCHANGED <<isEnabled, debounceMap, timers, timerKey, running, nextTimer,
                   fired, timerBurst, lastEvTimer, disabledAt, startedStale>>
    /\ UNCHANGED notW

\* the subscription emits 'error' and the handler closes the watcher
WatcherError_Disables ==
    /\ watcher # "null"
    /\ watcherErrorLogged' = TRUE
    /\ isEnabled' = FALSE
    /\ UNCHANGED <<watcher, closers, debounceMap, timers, timerKey, running, nextTimer,
                   fired, timerBurst, lastEvTimer, disabledAt, startedStale>>
    /\ UNCHANGED notWatcherError

\* the subscription emits 'error': the handler set up by setupWatcher writes the
\* error to the console and does nothing else
WatcherError ==
    /\ watcher # "null"
    /\ watcherErrorLogged' = TRUE
    /\ UNCHANGED wVars
    /\ UNCHANGED notWatcherError

WNext ==
    \/ Enable
    \/ \E k \in Keys, supported \in BOOLEAN : FsEvent(k, supported)
    \/ \E t \in TimerIds : TimerFires(t)
    \/ \E t \in TimerIds : ProcessDone(t)
    \/ DisableBegin
    \/ DisableEnd

\* C4: for a burst of two or more watcher events of one (event, path) key, each
\* arriving within the 500 ms window of the one before, at most one single-file
\* update is dispatched for that key.
C4_OneDispatchPerBurst ==
    \A t1, t2 \in fired : t1 # t2 => timerBurst[t1] # timerBurst[t2]

\* C7: from the moment disable() returns until the next enable(), no single-file
\* update is started for an event received before the disable, and
\* pendingOperations is 0.
C7_DisableCancelsPending ==
    /\ ~startedStale
    /\ DisabledAndReturned => PendingOperations = 0

\* C37: whenever the watcher reports enabled and no disable() call is awaiting
\* close() (enable() has no await), a filesystem subscription exists, also when
\* enable() was called while an earlier disable() was awaiting the close of the
\* previous subscription; enable() on an enabled watcher and disable() on a
\* disabled watcher change nothing.
C37_EnabledHasSubscription ==
    /\ []((isEnabled /\ closers = 0) => watcher = "open")
    /\ [][((Enable /\ isEnabled) \/ (DisableBegin /\ ~isEnabled)) => UNCHANGED wVars]_vars

\* C38: every debounce key has at most one live timer (scheduled, not yet
\* fired), and it is the timer the debounce map records under the key; so
\* pendingOperations equals the number of keys whose action is scheduled or in
\* flight.
C38_OneLiveTimerPerKey ==
    /\ \A t1, t2 \in timers : timerKey[t1] = timerKey[t2] => t1 = t2
    /\ \A t \in timers : debounceMap[timerKey[t]] = t
    /\ PendingOperations = Cardinality({k \in Keys : \E t \in timers \cup running : timerKey[t] = k})

\* the watcher with a subscription that may emit 'error' (of the file events,
\* 'change' is followed)
WErrorNext ==
    \/ Enable
    \/ \E f \in WatchedFiles, supported \in BOOLEAN : FsEvent(<<"change", f>>, supported)
    \/ \E t \in TimerIds : TimerFires(t)
    \/ \E t \in TimerIds : ProcessDone(t)
    \/ DisableBegin
    \/ DisableEnd
    \/ WatcherError

\* C29: a step that logs a watcher error changes neither the enabled flag, nor the
\* subscription, nor the pending debounce timers; and only a disable() call (its
\* start, or the close() it awaits) ends the subscription or clears the enabled flag.
C29_WatcherErrorOnlyLogged ==
    [][/\ (watcherErrorLogged' # watcherErrorLogged) =>
             /\ isEnabled' = isEnabled
             /\ watcher' = watcher
             /\ debounceMap' = debounceMap
             /\ timers' = timers
       /\ (watcher = "open" /\ watcher' # "open") => (DisableBegin \/ DisableEnd)
       /\ (isEnabled /\ ~isEnabled') => DisableBegin]_vars

\* an error was logged and the watcher is still enabled and subscribed, with a
\* debounce timer pending
C29_Witness ==
    /\ watcherErrorLogged
    /\ isEnabled
    /\ watcher = "open"
    /\ PendingOperations > 0
    /\ timers # {}

(***************************************************************************)
(* Part 3: tool handlers, freshness gate, FileSynchronizer, workflows      *)
(* The codebase holds other files that never change, so its collection     *)
(* always has a row naming the codebase and syncIndexedCodebasesFromCloud  *)
(* finds it. Context (reindexByChange, indexCodebase) is not part of the   *)
(* sources at hand: it is modelled from the specification's SyncController *)
(* and from PLAN.md's description of the sync mechanism.                   *)
(***************************************************************************)

\* Bound: versions a file goes through
MaxVer == 2
\* Model time advances in steps of this many milliseconds
TickMs == 2000
\* if (cacheEntry && (now - cacheEntry.timestamp) < 2000)
SYNC_CACHE_TTL == 2000

\* Bound: sync_now calls that reach the audit trail
MaxSyncNow == 1
\* Bound: entries appended to one codebase's audit trail when the trail is driven alone
MaxAppends == 52
\* private readonly MAX_HISTORY_ENTRIES = 50
MAX_HISTORY_ENTRIES == 50

Files == {"a.ts"}
NoFile == 0
\* the keys of syncHistory: the codebase followed, and another one
Codebases == {"cb", "other"}
\* the callers of reindexByChange: search_code's gate, sync_now, the watcher
Procs == {"S", "N", "C"}

\* crypto.createHash('sha256').update(content): injective on the versions
Hash(v) == v
\* stat.mtimeMs of a file at version v: every write moves the mtime
Mtime(v) == v

NoChanges == [added |-> {}, modified |-> {}, removed |-> {}]
NoEntry == [present |-> FALSE, age |-> 0, hasChanges |-> FALSE]
\* lastSyncCache.set(codebasePath, { timestamp: now, hasChanges })
Entry(h) == [present |-> TRUE, age |-> 0, hasChanges |-> h]

NoGate == [sawStatus |-> "none", gateRan |-> FALSE, sawEntry |-> NoEntry, sawSync |-> FALSE,
           didScan |-> FALSE, reported |-> NoChanges, hasChanges |-> FALSE, fromCache |-> FALSE,
           didReindex |-> FALSE, keptHashes |-> TRUE, syncFailed |-> FALSE]

\* what the vector database answers to syncIndexedCodebasesFromCloud: every call
\* succeeds, listCollections throws, or the query of the codebase's collection throws
CloudResults == {"ok", "listFails", "queryFails"}

\* syncIndexedCodebasesFromCloud: an indexed codebase is removed from the snapshot
\* unless the first row of its collection names it; nothing happens if
\* listCollections throws
StatusAfterCloudSync(cloud) ==
    IF /\ status = "indexed"
       /\ cloud # "listFails"
       /\ \/ cloud = "queryFails"
          \/ ~hasCollection
          \/ \A f \in Files : store[f] = NoFile
    THEN "not_found"
    ELSE status

Refused_Never(st) == FALSE

\* handleSearchCode: if (!isIndexed && !isIndexing) return the "not indexed" error
Refused(st) == st \notin {"indexed", "indexing"}

HasAny_NoRemoved(ch) == ch.added \cup ch.modified # {}

\* changes.added.length > 0 || changes.modified.length > 0 || changes.removed.length > 0
HasAny(ch) == ch.added \cup ch.modified \cup ch.removed # {}

\* FileSynchronizer.compareStates
CompareStates(oldHashes, newHashes) ==
    [added    |-> {f \in Files : newHashes[f] # NoFile /\ oldHashes[f] = NoFile},
     modified |-> {f \in Files : newHashes[f] # NoFile /\ oldHashes[f] # NoFile
                                  /\ oldHashes[f] # newHashes[f]},
     removed  |-> {f \in Files : oldHashes[f] # NoFile /\ newHashes[f] = NoFile}]

\* hashFileOptimized: the stored hash if the mtime is the cached one, else a new hash
HashFileOptimized(f) ==
    IF mtimeCache[f] = Mtime(disk[f]) /\ fileHashes[f] # NoFile
    THEN fileHashes[f]
    ELSE Hash(disk[f])

\* generateFileHashes(rootDir): a hash for every file on disk
NewFileHashes == [f \in Files |-> IF disk[f] = NoFile THEN NoFile ELSE HashFileOptimized(f)]

\* the mtime cache after generateFileHashes: hashFileOptimized sets the entry of
\* every file it hashes
MtimeAfterScan == [f \in Files |-> IF disk[f] = NoFile THEN mtimeCache[f] ELSE Mtime(disk[f])]

\* quickDirectoryScan: some file on disk has no cached mtime or another one
QuickScanHasChanges == \E f \in Files : disk[f] # NoFile /\ mtimeCache[f] # Mtime(disk[f])

\* what checkForChanges returns
FullChanges == CompareStates(fileHashes, NewFileHashes)

CommitHashes_Keep(ch) == fileHashes

\* checkForChanges, when the comparison finds changes: this.fileHashes = newFileHashes
CommitHashes(ch) == IF HasAny(ch) THEN NewFileHashes ELSE fileHashes

\* FileSynchronizer.checkForChanges: its effect on the synchronizer
CheckForChanges ==
    /\ fileHashes' = CommitHashes(FullChanges)
    /\ mtimeCache' = MtimeAfterScan
    /\ snapshotSaved' = (snapshotSaved \/ HasAny(FullChanges))

\* what checkForChangesIncremental returns
IncrementalChanges ==
    IF fullScanDue \/ QuickScanHasChanges THEN FullChanges ELSE NoChanges

\* FileSynchronizer.checkForChangesIncremental: a full scan when one is due or
\* the quick scan sees a changed mtime, else nothing
CheckForChangesIncremental ==
    /\ fullScanDue' = FALSE
    /\ IF fullScanDue \/ QuickScanHasChanges
       THEN CheckForChanges
       ELSE UNCHANGED <<fileHashes, mtimeCache, snapshotSaved>>

CacheHit_Never(entry) == FALSE

\* quickSyncCheck: cacheEntry && (now - cacheEntry.timestamp) < 2000
CacheHit(entry) == entry.present /\ entry.age < SYNC_CACHE_TTL

SInit ==
    /\ disk \in [Files -> 0..1]
    /\ nextVer = 2
    /\ \/ /\ status = "not_found"
          /\ fileHashes = [f \in Files |-> NoFile]
          /\ snapshotSaved = FALSE
          /\ hasCollection = FALSE
          /\ store = [f \in Files |-> NoFile]
       \/ \* the server starts with a snapshot that lists the codebase as indexed
          /\ status = "indexed"
          /\ fileHashes = disk
          /\ snapshotSaved = TRUE
          /\ hasCollection = TRUE
          /\ store = disk
    /\ mtimeCache = fileHashes
    /\ fullScanDue = TRUE
    /\ hasSync = FALSE
    /\ lastSyncCache = NoEntry
    /\ lock = "none"
    /\ aPc = "idle"
    /\ sPc = "idle"
    /\ sq = NoGate
    /\ nPc = "idle"
    /\ cPc = "idle"
    /\ rScan = [p \in Procs |-> NoChanges]
    /\ fresh = FALSE
    /\ dirty = [p \in Procs |-> FALSE]
    /\ syncHistory = [cb \in Codebases |-> <<>>]
    /\ appended = [cb \in Codebases |-> 0]

\* the tree changes: every reindexByChange caller whose workflow is under way is
\* marked
DirtyInFlight ==
    [p \in Procs |-> \/ p = "S" /\ sPc \in {"reindexWait", "reindexing"}
                     \/ p = "N" /\ nPc # "idle"
                     \/ p = "C" /\ cPc # "idle"]

\* a file is written (created or modified) outside the program
DiskWrite(f) ==
    /\ nextVer <= MaxVer
    /\ disk' = [disk EXCEPT ![f] = nextVer]
    /\ nextVer' = nextVer + 1
    /\ fresh' = FALSE
    /\ dirty' = DirtyInFlight
    /\ UNCHANGED <<fileHashes, mtimeCache, snapshotSaved, fullScanDue, hasSync, hasCollection,
                   store, status, lastSyncCache, lock, aPc, sPc, sq, nPc, cPc, rScan>>
    /\ UNCHANGED hVars
    /\ UNCHANGED notS

\* a file is deleted outside the program
DiskDelete(f) ==
    /\ disk[f] # NoFile
    /\ disk' = [disk EXCEPT ![f] = NoFile]
    /\ fresh' = FALSE
    /\ dirty' = DirtyInFlight
    /\ UNCHANGED <<nextVer, fileHashes, mtimeCache, snapshotSaved, fullScanDue, hasSync,
                   hasCollection, store, status, lastSyncCache, lock, aPc, sPc, sq, nPc, cPc,
                   rScan>>
    /\ UNCHANGED hVars
    /\ UNCHANGED notS

\* TickMs pass: the cache entry ages (ages of SYNC_CACHE_TTL and more are alike)
Tick ==
    /\ lastSyncCache.present
    /\ lastSyncCache.age < SYNC_CACHE_TTL
    /\ lastSyncCache' = [lastSyncCache EXCEPT !.age =
                            IF @ + TickMs > SYNC_CACHE_TTL THEN SYNC_CACHE_TTL ELSE @ + TickMs]
    /\ UNCHANGED <<disk, nextVer, fileHashes, mtimeCache, snapshotSaved, fullScanDue, hasSync,
                   hasCollection, store, status, lock, aPc, sPc, sq, nPc, cPc, rScan, fresh,
                   dirty>>
    /\ UNCHANGED hVars
    /\ UNCHANGED notS

\* FULL_SCAN_INTERVAL has passed since lastFullScan
FullScanIntervalPasses ==
    /\ ~fullScanDue
    /\ fullScanDue' = TRUE
    /\ UNCHANGED <<disk, nextVer, fileHashes, mtimeCache, snapshotSaved, hasSync, hasCollection,
                   store, status, lastSyncCache, lock, aPc, sPc, sq, nPc, cPc, rScan, fresh,
                   dirty>>
    /\ UNCHANGED hVars
    /\ UNCHANGED notS

\* the constructor's setInterval: this.clearSyncCache() every 5 minutes deletes the
\* entries older than 5 minutes (an age of SYNC_CACHE_TTL stands for every greater age)
CacheSweep ==
    /\ lastSyncCache.present
    /\ lastSyncCache.age >= SYNC_CACHE_TTL
    /\ lastSyncCache' = NoEntry
    /\ UNCHANGED <<disk, nextVer, fileHashes, mtimeCache, snapshotSaved, fullScanDue, hasSync,
                   hasCollection, store, status, lock, aPc, sPc, sq, nPc, cPc, rScan, fresh,
                   dirty>>
    /\ UNCHANGED hVars
    /\ UNCHANGED notS

\* Context.reindexByChange, first half: take the codebase lock, make sure the
\* codebase has a synchronizer (a new one initializes from its snapshot, or from a
\* scan when there is none) and detect the changes with checkForChanges
ReindexScan(p) ==
    /\ lock = "none"
    /\ lock' = p
    /\ hasSync' = TRUE
    /\ IF ~hasSync /\ ~snapshotSaved
       THEN /\ fileHashes' = NewFileHashes
            /\ mtimeCache' = MtimeAfterScan
            /\ snapshotSaved' = TRUE
            /\ rScan' = [rScan EXCEPT ![p] = NoChanges]
       ELSE /\ CheckForChanges
            /\ rScan' = [rScan EXCEPT ![p] = FullChanges]
    /\ UNCHANGED fullScanDue

\* Context.reindexByChange, second half: delete the chunks of the removed paths,
\* update the chunks of the added and modified paths from the files as they are
\* now, release the lock
ReindexApply(p) ==
    /\ lock = p
    /\ lock' = "none"
    /\ store' = [f \in Files |->
                    IF f \in rScan[p].removed THEN NoFile
                    ELSE IF f \in rScan[p].added \cup rScan[p].modified THEN disk[f]
                    ELSE store[f]]
    /\ rScan' = [rScan EXCEPT ![p] = NoChanges]
    /\ fresh' = (fresh \/ ~dirty[p])

\* Context.reindexByChange throws while applying: the lock is released
ReindexThrows(p) ==
    /\ lock = p
    /\ lock' = "none"
    /\ rScan' = [rScan EXCEPT ![p] = NoChanges]
    /\ UNCHANGED <<store, fresh>>

\* quickSyncCheck: a cache entry younger than the TTL answers; else, without a
\* synchronizer, "no changes" is cached; else the incremental check runs and its
\* result is cached, or it throws and "no changes" is cached
QuickSyncCheck ==
    \/ /\ CacheHit(lastSyncCache)
       /\ sq' = [NoGate EXCEPT !.sawStatus = "indexed", !.gateRan = TRUE,
                               !.sawEntry = lastSyncCache, !.sawSync = hasSync,
                               !.hasChanges = lastSyncCache.hasChanges, !.fromCache = TRUE]
       /\ UNCHANGED <<lastSyncCache, fileHashes, mtimeCache, snapshotSaved, fullScanDue>>
    \/ /\ ~CacheHit(lastSyncCache)
       /\ ~hasSync
       /\ lastSyncCache' = Entry(FALSE)
       /\ sq' = [NoGate EXCEPT !.sawStatus = "indexed", !.gateRan = TRUE,
                               !.sawEntry = lastSyncCache, !.sawSync = hasSync]
       /\ UNCHANGED <<fileHashes, mtimeCache, snapshotSaved, fullScanDue>>
    \/ /\ ~CacheHit(lastSyncCache)
       /\ hasSync
       /\ CheckForChangesIncremental
       /\ lastSyncCache' = Entry(HasAny(IncrementalChanges))
       /\ sq' = [NoGate EXCEPT !.sawStatus = "indexed", !.gateRan = TRUE,
                               !.sawEntry = lastSyncCache, !.sawSync = hasSync,
                               !.didScan = TRUE, !.reported = IncrementalChanges,
                               !.hasChanges = HasAny(IncrementalChanges),
                               !.keptHashes = (fileHashes' = fileHashes)]
    \/ /\ ~CacheHit(lastSyncCache)
       /\ hasSync
       /\ lastSyncCache' = Entry(FALSE)
       /\ sq' = [NoGate EXCEPT !.sawStatus = "indexed", !.gateRan = TRUE,
                               !.sawEntry = lastSyncCache, !.sawSync = hasSync,
                               !.didScan = TRUE, !.syncFailed = TRUE]
       /\ UNCHANGED <<fileHashes, mtimeCache, snapshotSaved, fullScanDue>>

\* handleSearchCode up to the index update: the snapshot is synced from the cloud;
\* a codebase neither indexed nor being indexed is refused; the gate runs if the codebase is indexed, not being indexed
\* and ENABLE_PRE_SEARCH_SYNC is not 'false'
SearchStart(cloud, preSearchSyncEnabled) ==
    /\ sPc = "idle"
    /\ status' = StatusAfterCloudSync(cloud)
    /\ IF status' = "indexed" /\ preSearchSyncEnabled
       THEN QuickSyncCheck
       ELSE /\ sq' = [NoGate EXCEPT !.sawStatus = status']
            /\ UNCHANGED <<lastSyncCache, fileHashes, mtimeCache, snapshotSaved, fullScanDue>>
    /\ sPc' = IF Refused(status') THEN "refused"
              ELSE IF sq'.hasChanges THEN "reindexWait" ELSE "searching"
    /\ dirty' = [dirty EXCEPT !["S"] = FALSE]
    /\ UNCHANGED <<disk, nextVer, hasSync, hasCollection, store, lock, aPc, nPc, cPc,
                   rScan, fresh>>
    /\ UNCHANGED hVars
    /\ UNCHANGED notS

\* handleSearchCode: await this.context.reindexByChange(absolutePath) begins
SearchReindexBegin ==
    /\ sPc = "reindexWait"
    /\ ReindexScan("S")
    /\ sPc' = "reindexing"
    /\ sq' = [sq EXCEPT !.didReindex = TRUE]
    /\ UNCHANGED <<disk, nextVer, hasCollection, store, status, lastSyncCache, aPc, nPc, cPc,
                   fresh, dirty>>
    /\ UNCHANGED hVars
    /\ UNCHANGED notS

\* the index update returned: this.lastSyncCache.delete(absolutePath)
SearchReindexEnd ==
    /\ sPc = "reindexing"
    /\ ReindexApply("S")
    /\ lastSyncCache' = NoEntry
    /\ sPc' = "searching"
    /\ UNCHANGED <<disk, nextVer, fileHashes, mtimeCache, snapshotSaved, fullScanDue, hasSync,
                   hasCollection, status, aPc, sq, nPc, cPc>>
    /\ dirty' = [dirty EXCEPT !["S"] = FALSE]
    /\ UNCHANGED hVars
    /\ UNCHANGED notS

SearchReindexThrows_Surfaces ==
    /\ sPc = "reindexing"
    /\ ReindexThrows("S")
    /\ sPc' = "refused"
    /\ sq' = [sq EXCEPT !.syncFailed = TRUE]
    /\ UNCHANGED <<disk, nextVer, fileHashes, mtimeCache, snapshotSaved, fullScanDue, hasSync,
                   hasCollection, status, lastSyncCache, aPc, nPc, cPc>>
    /\ dirty' = [dirty EXCEPT !["S"] = FALSE]
    /\ UNCHANGED hVars
    /\ UNCHANGED notS

\* the index update threw: a warning, and the search goes on with the index as it is
SearchReindexThrows ==
    /\ sPc = "reindexing"
    /\ ReindexThrows("S")
    /\ sPc' = "searching"
    /\ sq' = [sq EXCEPT !.syncFailed = TRUE]
    /\ UNCHANGED <<disk, nextVer, fileHashes, mtimeCache, snapshotSaved, fullScanDue, hasSync,
                   hasCollection, status, lastSyncCache, aPc, nPc, cPc>>
    /\ dirty' = [dirty EXCEPT !["S"] = FALSE]
    /\ UNCHANGED hVars
    /\ UNCHANGED notS

\* the handler returns: after semanticSearch has run against the collection, or
\* with the "not indexed" error
SearchDone ==
    /\ sPc \in {"searching", "refused"}
    /\ sPc' = "idle"
    /\ sq' = NoGate
    /\ UNCHANGED <<disk, nextVer, fileHashes, mtimeCache, snapshotSaved, fullScanDue, hasSync,
                   hasCollection, store, status, lastSyncCache, lock, aPc, nPc, cPc, rScan,
                   fresh, dirty>>
    /\ UNCHANGED hVars
    /\ UNCHANGED notS

\* the result reindexByChange returns: the number of added, modified and removed files
Counts(ch) == [added |-> Cardinality(ch.added), modified |-> Cardinality(ch.modified),
               removed |-> Cardinality(ch.removed)]

LogSyncOperation_KeepOldest(history, entry) ==
    LET pushed == Append(history, entry)
    IN  IF Len(pushed) > MAX_HISTORY_ENTRIES
        THEN SubSeq(pushed, 1, MAX_HISTORY_ENTRIES)
        ELSE pushed

\* logSyncOperation on the codebase's array: history.push(entry), then
\* history.splice(0, history.length - MAX_HISTORY_ENTRIES) if it is too long
LogSyncOperation(history, entry) ==
    LET pushed == Append(history, entry)
    IN  IF Len(pushed) > MAX_HISTORY_ENTRIES
        THEN SubSeq(pushed, Len(pushed) - MAX_HISTORY_ENTRIES + 1, Len(pushed))
        ELSE pushed

\* logSyncOperation(codebasePath, operation, result, duration, trigger); the
\* timestamp is the entry's place among the codebase's appends
LogSync(cb, result, trigger) ==
    /\ syncHistory' = [syncHistory EXCEPT ![cb] =
            LogSyncOperation(@, [timestamp |-> appended[cb] + 1, result |-> result,
                                 trigger |-> trigger])]
    /\ appended' = [appended EXCEPT ![cb] = @ + 1]

\* handleSyncNow up to the index update: refused unless context.hasIndex
SyncNowStart ==
    /\ nPc = "idle"
    /\ appended["cb"] < MaxSyncNow
    /\ hasCollection
    /\ nPc' = "reindexWait"
    /\ dirty' = [dirty EXCEPT !["N"] = FALSE]
    /\ UNCHANGED <<disk, nextVer, fileHashes, mtimeCache, snapshotSaved, fullScanDue, hasSync,
                   hasCollection, store, status, lastSyncCache, lock, aPc, sPc, sq, cPc, rScan,
                   fresh>>
    /\ UNCHANGED hVars
    /\ UNCHANGED notS

\* handleSyncNow: await this.context.reindexByChange(absolutePath) begins
SyncNowReindexBegin ==
    /\ nPc = "reindexWait"
    /\ ReindexScan("N")
    /\ nPc' = "reindexing"
    /\ UNCHANGED <<disk, nextVer, hasCollection, store, status, lastSyncCache, aPc, sPc, sq,
                   cPc, fresh, dirty>>
    /\ UNCHANGED hVars
    /\ UNCHANGED notS

\* the index update returned: the operation is logged and the cache entry deleted
SyncNowReindexEnd ==
    /\ nPc = "reindexing"
    /\ ReindexApply("N")
    /\ LogSync("cb", Counts(rScan["N"]), "manual")
    /\ lastSyncCache' = NoEntry
    /\ nPc' = "idle"
    /\ UNCHANGED <<disk, nextVer, fileHashes, mtimeCache, snapshotSaved, fullScanDue, hasSync,
                   hasCollection, status, aPc, sPc, sq, cPc>>
    /\ dirty' = [dirty EXCEPT !["N"] = FALSE]
    /\ UNCHANGED notS

\* the index update threw: the handler returns the error
SyncNowReindexThrows ==
    /\ nPc = "reindexing"
    /\ ReindexThrows("N")
    /\ nPc' = "idle"
    /\ UNCHANGED <<disk, nextVer, fileHashes, mtimeCache, snapshotSaved, fullScanDue, hasSync,
                   hasCollection, status, lastSyncCache, aPc, sPc, sq, cPc>>
    /\ dirty' = [dirty EXCEPT !["N"] = FALSE]
    /\ UNCHANGED hVars
    /\ UNCHANGED notS

\* a debounce timer of the codebase's watcher fires: processFileChange begins
WatcherStart ==
    /\ cPc = "idle"
    /\ status = "indexed"
    /\ cPc' = "update"
    /\ dirty' = [dirty EXCEPT !["C"] = FALSE]
    /\ UNCHANGED <<disk, nextVer, fileHashes, mtimeCache, snapshotSaved, fullScanDue, hasSync,
                   hasCollection, store, status, lastSyncCache, lock, aPc, sPc, sq, nPc, rScan,
                   fresh>>
    /\ UNCHANGED hVars
    /\ UNCHANGED notS

\* FileSynchronizer.updateSingleFile(f): its effect on the synchronizer
UpdateSingleFile(f) ==
    IF disk[f] = NoFile
    THEN IF fileHashes[f] # NoFile
         THEN /\ fileHashes' = [fileHashes EXCEPT ![f] = NoFile]
              /\ mtimeCache' = [mtimeCache EXCEPT ![f] = NoFile]
              /\ snapshotSaved' = TRUE
         ELSE UNCHANGED <<fileHashes, mtimeCache, snapshotSaved>>
    ELSE /\ mtimeCache' = [mtimeCache EXCEPT ![f] = Mtime(disk[f])]
         /\ IF fileHashes[f] # HashFileOptimized(f)
            THEN /\ fileHashes' = [fileHashes EXCEPT ![f] = HashFileOptimized(f)]
                 /\ snapshotSaved' = TRUE
            ELSE UNCHANGED <<fileHashes, snapshotSaved>>

\* processFileChange: with a synchronizer, await updateSingleFile(filePath), which
\* returns added, modified or removed, or throws (caught: the callback ends);
\* without one, nothing; then reindexByChange is called
WatcherUpdateSingleFile(f) ==
    /\ cPc = "update"
    /\ \/ /\ hasSync
          /\ UpdateSingleFile(f)
          /\ cPc' = "reindexWait"
       \/ /\ hasSync
          /\ UNCHANGED <<fileHashes, mtimeCache, snapshotSaved>>
          /\ cPc' = "idle"
       \/ /\ ~hasSync
          /\ UNCHANGED <<fileHashes, mtimeCache, snapshotSaved>>
          /\ cPc' = "reindexWait"
    /\ UNCHANGED <<disk, nextVer, fullScanDue, hasSync, hasCollection, store, status,
                   lastSyncCache, lock, aPc, sPc, sq, nPc, rScan, fresh>>
    /\ dirty' = [dirty EXCEPT !["C"] = dirty["C"] /\ cPc' # "idle"]
    /\ UNCHANGED hVars
    /\ UNCHANGED notS

\* processFileChange: await this.context.reindexByChange(this.codebasePath) begins
WatcherReindexBegin ==
    /\ cPc = "reindexWait"
    /\ ReindexScan("C")
    /\ cPc' = "reindexing"
    /\ UNCHANGED <<disk, nextVer, hasCollection, store, status, lastSyncCache, aPc, sPc, sq,
                   nPc, fresh, dirty>>
    /\ UNCHANGED hVars
    /\ UNCHANGED notS

\* the index update returned: processFileChange ends
WatcherReindexEnd ==
    /\ cPc = "reindexing"
    /\ ReindexApply("C")
    /\ cPc' = "idle"
    /\ UNCHANGED <<disk, nextVer, fileHashes, mtimeCache, snapshotSaved, fullScanDue, hasSync,
                   hasCollection, status, lastSyncCache, aPc, sPc, sq, nPc>>
    /\ dirty' = [dirty EXCEPT !["C"] = FALSE]
    /\ UNCHANGED hVars
    /\ UNCHANGED notS

\* the index update threw: processFileChange logs the failure and ends
WatcherReindexThrows ==
    /\ cPc = "reindexing"
    /\ ReindexThrows("C")
    /\ cPc' = "idle"
    /\ UNCHANGED <<disk, nextVer, fileHashes, mtimeCache, snapshotSaved, fullScanDue, hasSync,
                   hasCollection, status, lastSyncCache, aPc, sPc, sq, nPc>>
    /\ dirty' = [dirty EXCEPT !["C"] = FALSE]
    /\ UNCHANGED hVars
    /\ UNCHANGED notS

\* handleIndexCodebase: the snapshot is synced from the cloud; the call is refused
\* while indexing, and when indexed unless forced; a forced call removes the
\* codebase from the indexed list and clears its index (collection and synchronizer
\* snapshot); then the collection limit is checked and, if it allows, the status
\* becomes indexing(0) and background indexing starts (one background task at a
\* time is followed)
IndexStart(cloud, forceReindex, canCreateCollection) ==
    /\ aPc = "idle"
    /\ status # "indexing"
    /\ StatusAfterCloudSync(cloud) = "indexed" => forceReindex
    /\ IF forceReindex /\ hasCollection
       THEN /\ hasCollection' = FALSE
            /\ store' = [f \in Files |-> NoFile]
            /\ snapshotSaved' = FALSE
       ELSE UNCHANGED <<hasCollection, store, snapshotSaved>>
    /\ IF canCreateCollection
       THEN status' = "indexing" /\ aPc' = "init"
       ELSE /\ status' = IF forceReindex /\ status = "indexed"
                         THEN "not_found"
                         ELSE StatusAfterCloudSync(cloud)
            /\ UNCHANGED aPc
    /\ fresh' = FALSE
    /\ dirty' = DirtyInFlight
    /\ UNCHANGED <<disk, nextVer, fileHashes, mtimeCache, fullScanDue, hasSync,
                   lastSyncCache, lock, sPc, sq, nPc, cPc, rScan>>
    /\ UNCHANGED hVars
    /\ UNCHANGED notS

\* startBackgroundIndexing up to indexCodebase: a new FileSynchronizer is
\* initialized (from its snapshot, or from a scan when there is none) and
\* registered, and the collection is prepared
BackgroundInit ==
    /\ aPc = "init"
    /\ IF snapshotSaved
       THEN UNCHANGED <<fileHashes, mtimeCache>>
       ELSE fileHashes' = NewFileHashes /\ mtimeCache' = MtimeAfterScan
    /\ snapshotSaved' = TRUE
    /\ fullScanDue' = TRUE
    /\ hasSync' = TRUE
    /\ hasCollection' = TRUE
    /\ aPc' = "indexWait"
    /\ UNCHANGED <<disk, nextVer, store, status, lastSyncCache, lock, sPc, sq, nPc, cPc,
                   rScan, fresh, dirty>>
    /\ UNCHANGED hVars
    /\ UNCHANGED notS

\* Context.indexCodebase begins: it takes the codebase lock
BackgroundIndexBegin ==
    /\ aPc = "indexWait"
    /\ lock = "none"
    /\ lock' = "A"
    /\ aPc' = "indexing"
    /\ UNCHANGED <<disk, nextVer, fileHashes, mtimeCache, snapshotSaved, fullScanDue, hasSync,
                   hasCollection, store, status, lastSyncCache, sPc, sq, nPc, cPc, rScan,
                   fresh, dirty>>
    /\ UNCHANGED hVars
    /\ UNCHANGED notS

\* indexCodebase's progress callback: setCodebaseIndexing(absolutePath, percentage)
BackgroundProgress ==
    /\ aPc = "indexing"
    /\ status' = "indexing"
    /\ UNCHANGED <<disk, nextVer, fileHashes, mtimeCache, snapshotSaved, fullScanDue, hasSync,
                   hasCollection, store, lastSyncCache, lock, aPc, sPc, sq, nPc, cPc, rScan,
                   fresh, dirty>>
    /\ UNCHANGED hVars
    /\ UNCHANGED notS

\* indexCodebase returned (it throws if the collection is gone): every file's
\* chunks are stored, the status becomes indexed and the codebase's cache entry is
\* cleared
BackgroundIndexEnd ==
    /\ aPc = "indexing"
    /\ hasCollection
    /\ lock' = "none"
    /\ store' = disk
    /\ status' = "indexed"
    /\ lastSyncCache' = NoEntry
    /\ aPc' = "idle"
    /\ UNCHANGED <<disk, nextVer, fileHashes, mtimeCache, snapshotSaved, fullScanDue, hasSync,
                   hasCollection, sPc, sq, nPc, cPc, rScan, fresh, dirty>>
    /\ UNCHANGED hVars
    /\ UNCHANGED notS

\* background indexing threw: the status becomes indexfailed
BackgroundIndexThrows ==
    /\ aPc \in {"init", "indexing"}
    /\ lock' = IF aPc = "indexing" THEN "none" ELSE lock
    /\ status' = "indexfailed"
    /\ aPc' = "idle"
    /\ UNCHANGED <<disk, nextVer, fileHashes, mtimeCache, snapshotSaved, fullScanDue, hasSync,
                   hasCollection, store, lastSyncCache, sPc, sq, nPc, cPc, rScan, fresh, dirty>>
    /\ UNCHANGED hVars
    /\ UNCHANGED notS

\* handleClearIndex: refused unless the codebase is indexed or being indexed; if
\* context.clearIndex throws the error is returned; else the collection and the
\* synchronizer's snapshot are gone and the codebase is removed from the snapshot
ClearIndex(clearThrows) ==
    /\ status \in {"indexed", "indexing"}
    /\ IF clearThrows
       THEN UNCHANGED <<hasCollection, store, snapshotSaved, status, fresh, dirty>>
       ELSE /\ hasCollection' = FALSE
            /\ store' = [f \in Files |-> NoFile]
            /\ snapshotSaved' = FALSE
            /\ status' = "not_found"
            /\ fresh' = FALSE
            /\ dirty' = DirtyInFlight
    /\ UNCHANGED <<disk, nextVer, fileHashes, mtimeCache, fullScanDue, hasSync, lastSyncCache,
                   lock, aPc, sPc, sq, nPc, cPc, rScan>>
    /\ UNCHANGED hVars
    /\ UNCHANGED notS

SNext ==
    \/ \E f \in Files : DiskWrite(f)
    \/ \E f \in Files : DiskDelete(f)
    \/ Tick
    \/ FullScanIntervalPasses
    \/ CacheSweep
    \/ \E preSearchSyncEnabled \in BOOLEAN : SearchStart("ok", preSearchSyncEnabled)
    \/ SearchReindexBegin
    \/ SearchReindexEnd
    \/ SearchReindexThrows
    \/ SearchDone
    \/ WatcherStart
    \/ \E f \in Files : WatcherUpdateSingleFile(f)
    \/ WatcherReindexBegin
    \/ WatcherReindexEnd
    \/ WatcherReindexThrows
    \/ \E forceReindex, canCreateCollection \in BOOLEAN :
          IndexStart("ok", forceReindex, canCreateCollection)
    \/ \E clearThrows \in BOOLEAN : ClearIndex(clearThrows)
    \/ BackgroundProgress
    \/ BackgroundInit
    \/ BackgroundIndexBegin
    \/ BackgroundIndexEnd
    \/ BackgroundIndexThrows

\* the audit trail with sync_now: searches, sync_now calls and the watcher on an
\* indexed codebase
AuditNext ==
    \/ \E f \in Files : DiskWrite(f)
    \/ \E f \in Files : DiskDelete(f)
    \/ Tick
    \/ \E preSearchSyncEnabled \in BOOLEAN : SearchStart("ok", preSearchSyncEnabled)
    \/ SearchReindexBegin
    \/ SearchReindexEnd
    \/ SearchReindexThrows
    \/ SearchDone
    \/ SyncNowStart
    \/ SyncNowReindexBegin
    \/ SyncNowReindexEnd
    \/ SyncNowReindexThrows
    \/ WatcherStart
    \/ \E f \in Files : WatcherUpdateSingleFile(f)
    \/ WatcherReindexBegin
    \/ WatcherReindexEnd
    \/ WatcherReindexThrows

\* the life of a codebase's status: index_codebase, background indexing,
\* clear_index and search_code, with a vector database that may fail
LifecycleNext ==
    \/ \E f \in Files : DiskWrite(f)
    \/ \E f \in Files : DiskDelete(f)
    \/ \E cloud \in CloudResults, forceReindex, canCreateCollection \in BOOLEAN :
          IndexStart(cloud, forceReindex, canCreateCollection)
    \/ BackgroundInit
    \/ BackgroundIndexBegin
    \/ BackgroundProgress
    \/ BackgroundIndexEnd
    \/ BackgroundIndexThrows
    \/ \E clearThrows \in BOOLEAN : ClearIndex(clearThrows)
    \/ \E cloud \in CloudResults, preSearchSyncEnabled \in BOOLEAN :
          SearchStart(cloud, preSearchSyncEnabled)
    \/ SearchReindexBegin
    \/ SearchReindexEnd
    \/ SearchReindexThrows
    \/ SearchDone

\* logSyncOperation called for a codebase, the audit trail followed alone
HistoryAppend(cb) ==
    /\ appended[cb] < MaxAppends
    /\ LogSync(cb, Counts(NoChanges), "manual")
    /\ UNCHANGED <<disk, nextVer, fileHashes, mtimeCache, snapshotSaved, fullScanDue, hasSync,
                   hasCollection, store, status, lastSyncCache, lock, aPc, sPc, sq, nPc, cPc,
                   rScan, fresh, dirty>>
    /\ UNCHANGED notS

HistoryNext == \E cb \in Codebases : HistoryAppend(cb)

\* the mutating workflows in execution: A from the start of background indexing,
\* B while a gate's or a sync_now's reindexByChange runs, C from the start of
\* processFileChange
ExecutingWorkflows ==
    {w \in {"A", "B:search", "B:sync_now", "C"} :
        \/ w = "A" /\ aPc # "idle"
        \/ w = "B:search" /\ sPc = "reindexing"
        \/ w = "B:sync_now" /\ nPc = "reindexing"
        \/ w = "C" /\ cPc # "idle"}

\* C3: for one codebase at most one mutating workflow (full index A, incremental
\* reindex B, single-file update C) is executing at any time, whatever the
\* interleaving of tool calls and watcher timer firings.
C3_SingleWriter == Cardinality(ExecutingWorkflows) <= 1

\* C5: once a workflow B or C that began after the last change of the tree has
\* completed successfully, a search that reaches the vector store finds the chunks
\* of every file's current content and no chunk of old or deleted content.
C5_NextSearchSeesNewState ==
    (fresh /\ sPc = "searching" /\ status = "indexed") => store = disk

\* C8: the pre-search check leaves the synchronizer's stored hashes as they were,
\* and the reindexByChange that the search invokes right after a check reporting
\* changes detects the change set the check reported.
C8_CheckDoesNotApplyChanges ==
    (sq.gateRan /\ sq.didScan /\ sq.hasChanges) =>
        /\ sq.keptHashes
        /\ (sPc = "reindexing" /\ ~dirty["S"]) => rScan["S"] = sq.reported

\* C9: a search on an indexed codebase whose gate finds a cache entry less than 2 s
\* old that records no changes goes on to the search without any change-detector
\* scan and without workflow B.
C9_FreshCleanEntrySkipsScan ==
    (sq.gateRan /\ sq.sawEntry.present /\ sq.sawEntry.age < SYNC_CACHE_TTL
        /\ ~sq.sawEntry.hasChanges) =>
        (sPc = "searching" /\ ~sq.didScan /\ ~sq.didReindex)

C9_Witness ==
    /\ sPc = "searching"
    /\ sq.gateRan
    /\ sq.sawEntry.present
    /\ sq.sawEntry.age < SYNC_CACHE_TTL
    /\ ~sq.sawEntry.hasChanges
    /\ ~sq.didScan
    /\ store # disk

\* C10 (as claimed): when the gate runs and the cache entry is absent, at least 2 s
\* old or records changes, a change-detector check is run before the search and
\* workflow B is invoked exactly when that check reports a change.
C10_CheckRunsUnlessFreshClean ==
    (sPc = "searching" /\ sq.gateRan
        /\ (~sq.sawEntry.present \/ sq.sawEntry.age >= SYNC_CACHE_TTL \/ sq.sawEntry.hasChanges)) =>
        (sq.didScan /\ (sq.didReindex <=> sq.reported # NoChanges))

\* C10 (amended): when the gate runs and the entry is absent or at least 2 s old,
\* then with a synchronizer registered a check is run before the search and
\* workflow B is invoked exactly when it reports a change, and without one no check
\* is run and B is not invoked; when the entry is less than 2 s old and records
\* changes, no check is run and B is invoked on the cached result.
C10_CheckRunsOnMissWithSynchronizer ==
    (sPc = "searching" /\ sq.gateRan) =>
        LET hit == sq.sawEntry.present /\ sq.sawEntry.age < SYNC_CACHE_TTL
        IN  /\ (~hit /\ sq.sawSync) =>
                   (sq.didScan /\ (sq.didReindex <=> sq.reported # NoChanges))
            /\ (~hit /\ ~sq.sawSync) => (~sq.didScan /\ ~sq.didReindex)
            /\ (hit /\ sq.sawEntry.hasChanges) => (~sq.didScan /\ sq.didReindex)

C10_Witness ==
    /\ sPc = "searching"
    /\ sq.gateRan
    /\ sq.sawEntry.present
    /\ sq.sawEntry.age >= SYNC_CACHE_TTL
    /\ sq.sawSync
    /\ sq.didScan
    /\ sq.reported # NoChanges
    /\ sq.didReindex

\* C11: a search_code call that found the codebase indexed goes on to the vector
\* search after the pre-search sync attempt; when the change check or the catch-up
\* reindex failed, the call is at the vector search, on the index as it is, and
\* has not ended in an error.
C11_SearchProceedsAfterSyncFailure ==
    /\ sq.sawStatus = "indexed" => sPc \in {"reindexWait", "reindexing", "searching"}
    /\ sq.syncFailed => sPc = "searching"

C11_Witness ==
    /\ sPc = "searching"
    /\ sq.sawStatus = "indexed"
    /\ sq.syncFailed
    /\ sq.didReindex
    /\ store # disk

\* C12: every step that completes a write to the codebase's index (background
\* indexing, sync_now's reindex, the pre-search reindex, the watcher's single-file
\* update) and changes the stored chunks leaves the codebase without a sync cache
\* entry.
C12_WriteInvalidatesCache ==
    [][((BackgroundIndexEnd \/ SyncNowReindexEnd \/ SearchReindexEnd \/ WatcherReindexEnd)
            /\ store' # store)
          => ~lastSyncCache'.present]_vars

\* C13: a search_code call that finds the codebase neither indexed nor being
\* indexed returns the "not indexed" error without a change check, a reindex or a
\* vector search.
C13_UnindexedSearchRefused ==
    (sPc # "idle" /\ sq.sawStatus \notin {"indexed", "indexing"}) =>
        /\ sPc = "refused"
        /\ sq = [NoGate EXCEPT !.sawStatus = sq.sawStatus]

C13_Witness ==
    /\ sPc = "refused"
    /\ sq.sawStatus = "indexfailed"
    /\ hasCollection

\* C14: every step that completes a sync of the codebase appends exactly one audit
\* entry, with trigger manual for sync_now, pre-search for the gate's reindex and
\* realtime for the watcher's single-file update, carrying the counts of the sync.
C14_CompletedSyncIsAudited ==
    [][LET AuditedAs(trigger, result) ==
               /\ appended'["cb"] = appended["cb"] + 1
               /\ Len(syncHistory'["cb"]) > 0
               /\ syncHistory'["cb"][Len(syncHistory'["cb"])].trigger = trigger
               /\ syncHistory'["cb"][Len(syncHistory'["cb"])].result = result
       IN  /\ SyncNowReindexEnd => AuditedAs("manual", Counts(rScan["N"]))
           /\ SearchReindexEnd => AuditedAs("pre-search", Counts(rScan["S"]))
           /\ WatcherReindexEnd => AuditedAs("realtime", Counts(rScan["C"]))]_vars

\* C15: each codebase's audit history holds at most 50 entries and, after n
\* appends for the codebase, is the last min(n, 50) appended entries in the order
\* they were appended.
C15_HistoryIsLastFifty ==
    \A cb \in Codebases :
        LET n == appended[cb]
            k == IF n < MAX_HISTORY_ENTRIES THEN n ELSE MAX_HISTORY_ENTRIES
        IN  /\ Len(syncHistory[cb]) = k
            /\ k <= 50
            /\ \A i \in 1..k : syncHistory[cb][i].timestamp = n - k + i

C15_Witness ==
    /\ appended["cb"] > MAX_HISTORY_ENTRIES + 1
    /\ Len(syncHistory["cb"]) = MAX_HISTORY_ENTRIES
    /\ syncHistory["cb"][1].timestamp = appended["cb"] - MAX_HISTORY_ENTRIES + 1
    /\ appended["other"] = 1

\* C16: the codebase's status changes only from not indexed or failed to indexing
\* by index_codebase, from indexing to indexed or failed by the end of workflow A,
\* from indexed to indexing by a forced index_codebase that has dropped the
\* collection, and to not indexed by clear_index.
C16_StatusTransitions ==
    [][status' # status =>
          \/ /\ status \in {"not_found", "indexfailed"}
             /\ status' = "indexing"
             /\ \E cloud \in CloudResults, forceReindex \in BOOLEAN :
                    IndexStart(cloud, forceReindex, TRUE)
          \/ /\ status = "indexing"
             /\ \/ status' = "indexed" /\ BackgroundIndexEnd
                \/ status' = "indexfailed" /\ BackgroundIndexThrows
          \/ /\ status = "indexed"
             /\ status' = "indexing"
             /\ ~hasCollection'
             /\ \E cloud \in CloudResults : IndexStart(cloud, TRUE, TRUE)
          \/ /\ status' = "not_found"
             /\ ClearIndex(FALSE)]_vars

\* C17: once clear_index has completed while a workflow A is in flight, the status
\* stays not indexed: the workflow in flight does not set it to indexing, indexed
\* or failed.
C17_ClearInterruptsIndexing ==
    [][(aPc # "idle" /\ status = "not_found") => status' = "not_found"]_vars

\* C18: an indexed codebase becomes not indexed only by a clear_index call, never
\* by an index_codebase or a search_code call.
C18_IndexedRemovedOnlyByClear ==
    [][(status = "indexed" /\ status' = "not_found") => ClearIndex(FALSE)]_vars

\* C32: when the index update of a watcher-triggered single-file update throws,
\* every file whose chunks in the vector store are not those of its content on
\* disk is still reported as added, modified or removed by the synchronizer's
\* next change scan.
C32_FailedWatcherUpdateStaysDetectable ==
    [][WatcherReindexThrows =>
          \A f \in Files :
             store'[f] # disk'[f] =>
                f \in FullChanges'.added \cup FullChanges'.modified \cup FullChanges'.removed]_vars

(***************************************************************************)
(* Part 4: MilvusVectorDatabase.bulkDelete                                 *)
(***************************************************************************)

\* Bound: length of the ids argument
MaxIds == 3
\* Bound: largest batchSize argument tried (the code's default is 1000)
MaxBatchSize == 2

\* the ids a call may name (an id may occur more than once in the argument)
Ids == {"id1", "id2"}

IdSeqs == UNION {[1..n -> Ids] : n \in 0..MaxIds}

Offsets == 0..(MaxIds + MaxBatchSize)

Min(a, b) == IF a < b THEN a ELSE b

\* ids.slice(i, i + batchSize)
Slice(seq, i, size) == SubSeq(seq, i + 1, Min(i + size, Len(seq)))

\* no bulkDelete call
BdIdle ==
    /\ bdIds = <<>>
    /\ bdBatchSize = 1
    /\ bdMaxRetries = 0
    /\ bdPc = "idle"
    /\ bdI = 0
    /\ bdAttempt = 0
    /\ deletedCount = 0
    /\ failedIds = <<>>
    /\ bdTried = [o \in Offsets |-> 0]
    /\ bdOk = [o \in Offsets |-> FALSE]

\* bulkDelete(collectionName, ids, batchSize, maxRetries) has been called
BdInit ==
    /\ bdIds \in IdSeqs
    /\ bdBatchSize \in 1..MaxBatchSize
    /\ bdMaxRetries \in 0..MaxRetriesArg
    /\ bdPc = "enter"
    /\ bdI = 0
    /\ bdAttempt = 0
    /\ deletedCount = 0
    /\ failedIds = <<>>
    /\ bdTried = [o \in Offsets |-> 0]
    /\ bdOk = [o \in Offsets |-> FALSE]

\* ensureInitialized, ensureLoaded and the client check (an exception there leaves
\* the call), then the early return for no ids, then `let i = 0`
BulkDeleteEnter(ready) ==
    /\ bdPc = "enter"
    /\ bdPc' = IF ~ready THEN "thrown"
              ELSE IF Len(bdIds) = 0 THEN "done"
              ELSE "for"
    /\ UNCHANGED <<bdIds, bdBatchSize, bdMaxRetries, bdI, bdAttempt, deletedCount, failedIds,
                   bdTried, bdOk>>
    /\ UNCHANGED notBd

\* `i < ids.length`: the next batch is sliced and `let attempt = 0`, or the loop
\* ends and { deletedCount, failedIds } is returned
BulkDeleteFor ==
    /\ bdPc = "for"
    /\ IF bdI < Len(bdIds)
       THEN bdPc' = "while" /\ bdAttempt' = 0
       ELSE bdPc' = "done" /\ UNCHANGED bdAttempt
    /\ UNCHANGED <<bdIds, bdBatchSize, bdMaxRetries, bdI, deletedCount, failedIds, bdTried, bdOk>>
    /\ UNCHANGED notBd

\* one pass of `while (attempt < maxRetries)`: client.delete of the batch; on
\* success deletedCount grows by the batch and the loop breaks; on failure attempt
\* grows, and when it reaches maxRetries the batch goes to failedIds and the loop
\* breaks, else the pass is repeated after the backoff; a break is followed by
\* `i += batchSize`
BulkDeleteAttempt(deleteOk) ==
    /\ bdPc = "while"
    /\ bdAttempt < bdMaxRetries
    /\ bdTried' = [bdTried EXCEPT ![bdI] = @ + 1]
    /\ LET batch == Slice(bdIds, bdI, bdBatchSize)
       IN IF deleteOk
          THEN /\ deletedCount' = deletedCount + Len(batch)
               /\ bdOk' = [bdOk EXCEPT ![bdI] = TRUE]
               /\ bdI' = bdI + bdBatchSize
               /\ bdPc' = "for"
               /\ UNCHANGED <<bdAttempt, failedIds>>
          ELSE /\ bdAttempt' = bdAttempt + 1
               /\ IF bdAttempt' >= bdMaxRetries
                  THEN /\ failedIds' = failedIds \o batch
                       /\ bdI' = bdI + bdBatchSize
                       /\ bdPc' = "for"
                  ELSE UNCHANGED <<failedIds, bdI, bdPc>>
               /\ UNCHANGED <<deletedCount, bdOk>>
    /\ UNCHANGED <<bdIds, bdBatchSize, bdMaxRetries>>
    /\ UNCHANGED notBd

\* `attempt < maxRetries` is false when the while loop is reached: the loop body is
\* not run and `i += batchSize` follows
BulkDeleteWhileExit ==
    /\ bdPc = "while"
    /\ ~(bdAttempt < bdMaxRetries)
    /\ bdI' = bdI + bdBatchSize
    /\ bdPc' = "for"
    /\ UNCHANGED <<bdIds, bdBatchSize, bdMaxRetries, bdAttempt, deletedCount, failedIds,
                   bdTried, bdOk>>
    /\ UNCHANGED notBd

BdNext ==
    \/ \E ready \in BOOLEAN : BulkDeleteEnter(ready)
    \/ BulkDeleteFor
    \/ \E deleteOk \in BOOLEAN : BulkDeleteAttempt(deleteOk)
    \/ BulkDeleteWhileExit

\* the offsets at which the batches of a call start
BatchOffsets == {o \in Offsets : o < Len(bdIds) /\ o % bdBatchSize = 0}

RECURSIVE FailedFrom(_)
\* the ids, in order, of the batches from offset o on that no client.delete deleted
FailedFrom(o) ==
    IF o >= Len(bdIds) THEN <<>>
    ELSE (IF bdOk[o] THEN <<>> ELSE Slice(bdIds, o, bdBatchSize)) \o FailedFrom(o + bdBatchSize)

\* C19: bulkDelete does not throw once it has tried a batch; it tries no batch more
\* than maxRetries times; when it returns, every batch was deleted or tried
\* maxRetries times, deletedCount + |failedIds| = |ids|, and failedIds holds exactly
\* the ids of the batches none of whose attempts succeeded.
C19_BulkDeleteAccountsForEveryId ==
    /\ bdPc = "thrown" => \A o \in Offsets : bdTried[o] = 0
    /\ \A o \in Offsets : bdTried[o] <= bdMaxRetries
    /\ bdPc = "done" =>
          /\ \A o \in BatchOffsets : bdOk[o] \/ bdTried[o] = bdMaxRetries
          /\ deletedCount + Len(failedIds) = Len(bdIds)
          /\ failedIds = FailedFrom(0)

(***************************************************************************)
(* Part 5: MilvusVectorDatabase.batchFileUpdates                           *)
(***************************************************************************)

\* Bound: length of the fileUpdates argument
MaxUpdates == 3
\* Bound: largest batchSize argument tried (the code's default is 5)
MaxConcurrency == 2
\* Bound: chunks in one entry of fileUpdates
MaxEntryChunks == 1

\* the paths a call may name (a path may occur in more than one entry)
UpdatePaths == {"p", "q"}

Entries == [relativePath : UpdatePaths, chunks : 0..MaxEntryChunks]

Positions == 1..MaxUpdates

\* how an atomicFileUpdate call settles: it returns { success: true }, returns
\* { success: false }, or throws
Settlements == {"success", "failure", "thrown"}

\* the text atomicFileUpdate gives for a failure: result.error of a failure result
\* ("Failed after ... attempts: ..." or "Max retries exceeded"), error.message of
\* an exception
ErrorText(settlement) == IF settlement = "failure" THEN "Failed after retries" ELSE "thrown"

\* no batchFileUpdates call
BfuIdle ==
    /\ fileUpdates = <<>>
    /\ bfuBatchSize = 1
    /\ bfuPc = "idle"
    /\ bfuI = 0
    /\ bfuInFlight = {}
    /\ successful = 0
    /\ totalChunks = 0
    /\ failed = <<>>
    /\ bfuRan = [j \in Positions |-> 0]
    /\ bfuResult = [j \in Positions |-> "none"]

\* batchFileUpdates(collectionName, fileUpdates, batchSize) has been called:
\* successful = 0, totalChunks = 0, failed = [], i = 0
BfuInit ==
    /\ fileUpdates \in UNION {[1..n -> Entries] : n \in 0..MaxUpdates}
    /\ bfuBatchSize \in 1..MaxConcurrency
    /\ bfuPc = "for"
    /\ bfuI = 0
    /\ bfuInFlight = {}
    /\ successful = 0
    /\ totalChunks = 0
    /\ failed = <<>>
    /\ bfuRan = [j \in Positions |-> 0]
    /\ bfuResult = [j \in Positions |-> "none"]

\* `i < fileUpdates.length`: the batch is sliced and batch.map starts one
\* atomicFileUpdate per entry of the batch, then Promise.all is awaited; or the
\* loop ends and { successful, failed, totalChunks } is returned
BatchFileUpdatesFor ==
    /\ bfuPc = "for"
    /\ IF bfuI < Len(fileUpdates)
       THEN LET batch == (bfuI + 1)..Min(bfuI + bfuBatchSize, Len(fileUpdates))
            IN /\ bfuInFlight' = batch
               /\ bfuRan' = [j \in Positions |-> IF j \in batch THEN bfuRan[j] + 1 ELSE bfuRan[j]]
               /\ bfuPc' = "await"
       ELSE /\ bfuPc' = "done"
            /\ UNCHANGED <<bfuInFlight, bfuRan>>
    /\ UNCHANGED <<fileUpdates, bfuBatchSize, bfuI, successful, totalChunks, failed, bfuResult>>
    /\ UNCHANGED notBfu

\* an entry's atomicFileUpdate settles but a throw is not recorded in failed
AtomicFileUpdateSettles_DropsThrown(j, settlement) ==
    /\ bfuPc = "await"
    /\ j \in bfuInFlight
    /\ bfuInFlight' = bfuInFlight \ {j}
    /\ bfuResult' = [bfuResult EXCEPT ![j] = settlement]
    /\ IF settlement = "success"
       THEN /\ successful' = successful + 1
            /\ totalChunks' = totalChunks + fileUpdates[j].chunks
            /\ UNCHANGED failed
       ELSE /\ failed' = IF settlement = "thrown" THEN failed
                         ELSE Append(failed, [relativePath |-> fileUpdates[j].relativePath,
                                              error |-> ErrorText(settlement)])
            /\ UNCHANGED <<successful, totalChunks>>
    /\ UNCHANGED <<fileUpdates, bfuBatchSize, bfuPc, bfuI, bfuRan>>
    /\ UNCHANGED notBfu

\* an entry's atomicFileUpdate settles inside its try block: a success result
\* adds one to successful and result.chunksProcessed (newChunks.length) to
\* totalChunks; a failure result pushes { relativePath, result.error || 'Unknown
\* error' } to failed; an exception pushes { relativePath, error.message }
AtomicFileUpdateSettles(j, settlement) ==
    /\ bfuPc = "await"
    /\ j \in bfuInFlight
    /\ bfuInFlight' = bfuInFlight \ {j}
    /\ bfuResult' = [bfuResult EXCEPT ![j] = settlement]
    /\ IF settlement = "success"
       THEN /\ successful' = successful + 1
            /\ totalChunks' = totalChunks + fileUpdates[j].chunks
            /\ UNCHANGED failed
       ELSE /\ failed' = Append(failed, [relativePath |-> fileUpdates[j].relativePath,
                                         error |-> IF settlement = "failure"
                                                        /\ ErrorText(settlement) = ""
                                                   THEN "Unknown error"
                                                   ELSE ErrorText(settlement)])
            /\ UNCHANGED <<successful, totalChunks>>
    /\ UNCHANGED <<fileUpdates, bfuBatchSize, bfuPc, bfuI, bfuRan>>
    /\ UNCHANGED notBfu

\* Promise.all(batchPromises) resolves when every entry of the batch has settled;
\* the pause follows and `i += batchSize`
BatchFileUpdatesAwait ==
    /\ bfuPc = "await"
    /\ bfuInFlight = {}
    /\ bfuI' = bfuI + bfuBatchSize
    /\ bfuPc' = "for"
    /\ UNCHANGED <<fileUpdates, bfuBatchSize, bfuInFlight, successful, totalChunks, failed,
                   bfuRan, bfuResult>>
    /\ UNCHANGED notBfu

BfuNext ==
    \/ BatchFileUpdatesFor
    \/ \E j \in Positions, settlement \in Settlements : AtomicFileUpdateSettles(j, settlement)
    \/ BatchFileUpdatesAwait

\* the entries (by position) that settled a given way
SettledAs(settlement) == {j \in 1..Len(fileUpdates) : bfuResult[j] = settlement}

RECURSIVE ChunksOf(_)
\* the sum of the chunk counts of a set of entries
ChunksOf(js) ==
    IF js = {} THEN 0
    ELSE LET j == CHOOSE x \in js : TRUE
         IN fileUpdates[j].chunks + ChunksOf(js \ {j})

\* C20: batchFileUpdates never has more than batchSize atomicFileUpdate calls in
\* flight and never runs an entry twice; when it returns, every entry has run once
\* and has settled, successful + |failed| is the number of entries, failed names the
\* relativePath of each entry that did not succeed (as many times as entries with
\* that path failed), and totalChunks is the sum of chunksProcessed over the
\* successful entries.
C20_BatchFileUpdatesAccountsForEveryEntry ==
    /\ Cardinality(bfuInFlight) <= bfuBatchSize
    /\ \A j \in Positions : bfuRan[j] <= 1
    /\ bfuPc = "done" =>
          /\ \A j \in 1..Len(fileUpdates) : bfuRan[j] = 1 /\ bfuResult[j] # "none"
          /\ successful = Cardinality(SettledAs("success"))
          /\ successful + Len(failed) = Len(fileUpdates)
          /\ \A path \in UpdatePaths :
                Cardinality({k \in 1..Len(failed) : failed[k].relativePath = path})
                  = Cardinality({j \in SettledAs("failure") \cup SettledAs("thrown") :
                                    fileUpdates[j].relativePath = path})
          /\ totalChunks = ChunksOf(SettledAs("success"))

\* a call over three entries, two of them in flight together, has returned after
\* one entry succeeded, one returned a failure and one threw
C20_Witness ==
    /\ bfuPc = "done"
    /\ Len(fileUpdates) = 3
    /\ bfuBatchSize = 2
    /\ SettledAs("success") # {}
    /\ SettledAs("failure") # {}
    /\ SettledAs("thrown") # {}
    /\ Len(failed) = 2
    /\ totalChunks > 0

(***************************************************************************)
(* Part 6: the connection pool of MilvusVectorDatabase                     *)
(***************************************************************************)

\* Bound: adapters constructed in one run
MaxAdapters == 3

\* private static readonly POOL_CLEANUP_INTERVAL = 300000
POOL_CLEANUP_INTERVAL == 300000
\* private static readonly MAX_IDLE_TIME = 600000
MAX_IDLE_TIME == 600000

\* the instance keys (address, username, token presence) of the configurations used
PoolKeys == {"k1", "k2"}

Adapters == 1..MaxAdapters

NoPoolEntry == [present |-> FALSE, refCount |-> 0, idle |-> 0]

\* the entry getPooledClient sets: refCount 1, lastUsed now
NewPoolEntry == [present |-> TRUE, refCount |-> 1, idle |-> 0]

\* idle times are followed up to the first step beyond MAX_IDLE_TIME (greater ones
\* are alike)
IdleCap == MAX_IDLE_TIME + POOL_CLEANUP_INTERVAL

\* no adapter has been constructed: the pool is empty and no reaper timer is set
PoolInit ==
    /\ instancePool = [k \in PoolKeys |-> NoPoolEntry]
    /\ poolCleanupInterval = FALSE
    /\ reaperDue = FALSE
    /\ adKey = [a \in Adapters |-> "k1"]
    /\ adInit = [a \in Adapters |-> "none"]
    /\ adDropped = [a \in Adapters |-> FALSE]
    /\ clientsOpen = [k \in PoolKeys |-> 0]

\* the adapters constructed, initialised and not dropped that use a key
LiveAdapters(k) == {a \in Adapters : adKey[a] = k /\ adInit[a] = "ready" /\ ~adDropped[a]}

\* new MilvusVectorDatabase(config): the key is generated, initialize() starts (it
\* first awaits resolveAddress) and initializePoolCleanup sets the reaper's
\* interval timer if none is set
Construct(a, k) ==
    /\ adInit[a] = "none"
    /\ adKey' = [adKey EXCEPT ![a] = k]
    /\ adInit' = [adInit EXCEPT ![a] = "pending"]
    /\ poolCleanupInterval' = TRUE
    /\ UNCHANGED <<instancePool, reaperDue, adDropped, clientsOpen>>
    /\ UNCHANGED notPool

\* getPooledClient: an entry of the key is reused (refCount++, lastUsed = now), else
\* a client is created and set in the pool with refCount 1
GetPooledClient(k) ==
    /\ instancePool' = [instancePool EXCEPT ![k] =
                            IF @.present
                            THEN [@ EXCEPT !.refCount = @ + 1, !.idle = 0]
                            ELSE NewPoolEntry]
    /\ clientsOpen' = [clientsOpen EXCEPT ![k] = IF instancePool[k].present THEN @ ELSE @ + 1]

\* initialize() goes on: resolveAddress returned and initializeClient takes the
\* pooled client, or resolveAddress threw and the promise is rejected
Initialize(a, resolved) ==
    /\ adInit[a] = "pending"
    /\ IF resolved
       THEN /\ GetPooledClient(adKey[a])
            /\ adInit' = [adInit EXCEPT ![a] = "ready"]
       ELSE /\ adInit' = [adInit EXCEPT ![a] = "failed"]
            /\ UNCHANGED <<instancePool, clientsOpen>>
    /\ UNCHANGED <<poolCleanupInterval, reaperDue, adKey, adDropped>>
    /\ UNCHANGED notPool

\* the owner drops the adapter: no code of the adapter runs (releasePooledClient
\* has no caller)
Drop(a) ==
    /\ adInit[a] # "none"
    /\ ~adDropped[a]
    /\ adDropped' = [adDropped EXCEPT ![a] = TRUE]
    /\ UNCHANGED <<instancePool, poolCleanupInterval, reaperDue, adKey, adInit, clientsOpen>>
    /\ UNCHANGED notPool

\* releasePooledClient: if the key has an entry with refCount > 0, refCount-- and
\* lastUsed = now
ReleasePooledClient(k) ==
    IF instancePool[k].present /\ instancePool[k].refCount > 0
    THEN [instancePool EXCEPT ![k].refCount = @ - 1, ![k].idle = 0]
    ELSE instancePool

\* an initialised adapter is dropped by an owner that calls releasePooledClient
DropReleasing(a) ==
    /\ adInit[a] = "ready"
    /\ ~adDropped[a]
    /\ adDropped' = [adDropped EXCEPT ![a] = TRUE]
    /\ instancePool' = ReleasePooledClient(adKey[a])
    /\ UNCHANGED <<poolCleanupInterval, reaperDue, adKey, adInit, clientsOpen>>
    /\ UNCHANGED notPool

\* POOL_CLEANUP_INTERVAL passes: every entry is idle for that much longer and the
\* reaper's timer, if set, is due
PoolTimePasses ==
    /\ ~reaperDue
    /\ \E a \in Adapters : adInit[a] # "none"
    /\ instancePool' = [k \in PoolKeys |->
                           IF instancePool[k].present
                           THEN [instancePool[k] EXCEPT !.idle =
                                    Min(@ + POOL_CLEANUP_INTERVAL, IdleCap)]
                           ELSE instancePool[k]]
    /\ reaperDue' = poolCleanupInterval
    /\ UNCHANGED <<poolCleanupInterval, adKey, adInit, adDropped, clientsOpen>>
    /\ UNCHANGED notPool

\* the reaper deletes every entry idle for more than MAX_IDLE_TIME, whatever its refCount
CleanupConnectionPool_IgnoresRefCount ==
    /\ reaperDue
    /\ reaperDue' = FALSE
    /\ instancePool' = [k \in PoolKeys |->
                           IF /\ instancePool[k].present
                              /\ instancePool[k].idle > MAX_IDLE_TIME
                           THEN NoPoolEntry
                           ELSE instancePool[k]]
    /\ UNCHANGED <<poolCleanupInterval, adKey, adInit, adDropped, clientsOpen>>
    /\ UNCHANGED notPool

\* cleanupConnectionPool, run by the interval timer: every entry with refCount 0
\* and now - lastUsed > MAX_IDLE_TIME is deleted from the pool (its client is not
\* closed)
CleanupConnectionPool ==
    /\ reaperDue
    /\ reaperDue' = FALSE
    /\ instancePool' = [k \in PoolKeys |->
                           IF /\ instancePool[k].present
                              /\ instancePool[k].refCount = 0
                              /\ instancePool[k].idle > MAX_IDLE_TIME
                           THEN NoPoolEntry
                           ELSE instancePool[k]]
    /\ UNCHANGED <<poolCleanupInterval, adKey, adInit, adDropped, clientsOpen>>
    /\ UNCHANGED notPool

\* the adapters as the program uses them
PoolNext ==
    \/ \E a \in Adapters, k \in PoolKeys : Construct(a, k)
    \/ \E a \in Adapters, resolved \in BOOLEAN : Initialize(a, resolved)
    \/ \E a \in Adapters : Drop(a)
    \/ PoolTimePasses
    \/ CleanupConnectionPool

\* the pool's operations driven directly, releasePooledClient included
PoolCallsNext ==
    \/ \E a \in Adapters, k \in PoolKeys : Construct(a, k)
    \/ \E a \in Adapters, resolved \in BOOLEAN : Initialize(a, resolved)
    \/ \E a \in Adapters : Drop(a)
    \/ \E a \in Adapters : DropReleasing(a)
    \/ PoolTimePasses
    \/ CleanupConnectionPool

\* C21: for every key, the pooled entry's reference count (0 when the key has no
\* entry) equals the number of live adapters using the key.
C21_RefCountIsLiveAdapters ==
    \A k \in PoolKeys :
        /\ instancePool[k].refCount >= 0
        /\ instancePool[k].refCount = Cardinality(LiveAdapters(k))

\* C22: the reaper removes an entry only if no live adapter uses its key, its
\* reference count is 0 and it was last obtained or released more than
\* MAX_IDLE_TIME (10 minutes) ago.
C22_ReapsOnlyUnreferencedIdle ==
    [][\A k \in PoolKeys :
          (instancePool[k].present /\ ~instancePool'[k].present) =>
              /\ LiveAdapters(k) = {}
              /\ instancePool[k].refCount = 0
              /\ instancePool[k].idle > 10 * 60 * 1000]_vars

\* an entry was reaped while another key's entry, as idle but referenced by a live
\* adapter, stayed in the pool
C22_Witness ==
    /\ clientsOpen["k1"] = 1
    /\ ~instancePool["k1"].present
    /\ instancePool["k2"].present
    /\ instancePool["k2"].idle > MAX_IDLE_TIME
    /\ LiveAdapters("k2") # {}
    /\ ~reaperDue

\* C23: a pool entry whose key no live or initialising adapter uses is eventually
\* removed from the pool (or used again).
C23_UnusedEntryIsReaped ==
    \A k \in PoolKeys :
        (/\ instancePool[k].present
         /\ \A a \in Adapters : adKey[a] = k /\ adInit[a] \in {"pending", "ready"} => adDropped[a])
          ~> (\/ ~instancePool[k].present
              \/ \E a \in Adapters : adKey[a] = k /\ adInit[a] \in {"pending", "ready"} /\ ~adDropped[a])

(***************************************************************************)
(* Part 7: handleGetSyncHistory                                            *)
(***************************************************************************)

\* Bound: largest limit argument tried (the schema's default is 10, its maximum 50)
MaxLimit == 51

\* the limit arguments tried
Limits == 0..MaxLimit

\* array.slice(-n) for n >= 0: the last n elements, and the whole array for n = 0
\* (-0 is 0, and slice(0) copies the array)
SliceLast(seq, n) ==
    IF n = 0 THEN seq
    ELSE SubSeq(seq, (IF Len(seq) > n THEN Len(seq) - n ELSE 0) + 1, Len(seq))

\* array.reverse()
Reverse(seq) == [i \in 1..Len(seq) |-> seq[Len(seq) + 1 - i]]

\* handleGetSyncHistory(path, limit): the entries listed,
\* history.slice(-Math.min(limit, MAX_HISTORY_ENTRIES)).reverse()
RecentHistory(cb, limit) ==
    Reverse(SliceLast(syncHistory[cb], Min(limit, MAX_HISTORY_ENTRIES)))

\* C27: for every limit, get_sync_history lists at most min(limit, 50) entries, and
\* they are the most recent entries of the codebase, most recent first.
C27_HistoryListsAtMostLimit ==
    \A cb \in Codebases, limit \in Limits :
        LET listed == RecentHistory(cb, limit)
            n == Len(syncHistory[cb])
        IN /\ Len(listed) <= Min(limit, 50)
           /\ \A i \in 1..Len(listed) : listed[i] = syncHistory[cb][n + 1 - i]

(***************************************************************************)
(* Part 8: the extensionFilter argument of handleSearchCode                *)
(***************************************************************************)

\* Bound: characters in one entry of extensionFilter
MaxExtLen == 2
\* Bound: entries in extensionFilter
MaxFilterLen == 2

\* characters by kind: the dot, an ASCII letter or digit, another visible character
\* (such as - or +), and white space
Chars == {".", "a", "-", " "}

\* an entry that is not a string (a number, say)
NotAString == <<"number">>

ExtEntries == UNION {[1..n -> Chars] : n \in 0..MaxExtLen} \cup {NotAString}

ExtFilters == UNION {[1..n -> ExtEntries] : n \in 0..MaxFilterLen}

NoFilterExpr == <<"undefined">>

RECURSIVE TrimStart(_)
TrimStart(e) == IF e # <<>> /\ Head(e) = " " THEN TrimStart(Tail(e)) ELSE e

RECURSIVE TrimEnd(_)
TrimEnd(e) == IF e # <<>> /\ e[Len(e)] = " " THEN TrimEnd(SubSeq(e, 1, Len(e) - 1)) ELSE e

\* String.prototype.trim
Trim(e) == TrimEnd(TrimStart(e))

IsString(e) == e # NotAString

IsNonEmpty(e) == Len(e) > 0

RECURSIVE TrimAll(_)
\* .map(v => v.trim())
TrimAll(es) == IF es = <<>> THEN <<>> ELSE <<Trim(Head(es))>> \o TrimAll(Tail(es))

\* extensionFilter.filter(typeof v === 'string').map(v => v.trim()).filter(v.length > 0)
Cleaned(filter) == SelectSeq(TrimAll(SelectSeq(filter, IsString)), IsNonEmpty)

\* !(e.startsWith('.') && e.length > 1 && !/\s/.test(e))
IsInvalid(e) == ~(Head(e) = "." /\ Len(e) > 1 /\ \A i \in 1..Len(e) : e[i] # " ")

\* the whole entry matches \.[A-Za-z0-9]+
MatchesExtensionPattern(e) ==
    /\ IsString(e)
    /\ Len(e) > 1
    /\ Head(e) = "."
    /\ \A i \in 2..Len(e) : e[i] = "a"

\* no search_code call
EfIdle ==
    /\ extensionFilter = <<>>
    /\ efPc = "idle"
    /\ filterExpr = NoFilterExpr

\* search_code has been called with an extensionFilter and has reached the
\* building of the filter expression
EfInit ==
    /\ extensionFilter \in ExtFilters
    /\ efPc = "called"
    /\ filterExpr = NoFilterExpr

\* handleSearchCode builds the filter expression: for a non-empty array the entries
\* are cleaned; if a cleaned entry is invalid the error result is returned, else
\* filterExpr lists the cleaned entries; then semanticSearch is called with it
BuildFilterExpr ==
    /\ efPc = "called"
    /\ IF Len(extensionFilter) > 0
       THEN IF SelectSeq(Cleaned(extensionFilter), IsInvalid) # <<>>
            THEN efPc' = "rejected" /\ UNCHANGED filterExpr
            ELSE efPc' = "searching" /\ filterExpr' = Cleaned(extensionFilter)
       ELSE efPc' = "searching" /\ UNCHANGED filterExpr
    /\ UNCHANGED extensionFilter
    /\ UNCHANGED notEf

EfNext == BuildFilterExpr

\* C30: search_code searches (and builds a fileExtension expression) only for an
\* extension_filter whose entries all match a dot followed by one or more ASCII
\* letters or digits; every other filter is rejected with an error result.
C30_OnlyPatternExtensionsSearched ==
    /\ efPc = "searching" =>
          \A i \in 1..Len(extensionFilter) : MatchesExtensionPattern(extensionFilter[i])
    /\ efPc = "rejected" =>
          \E i \in 1..Len(extensionFilter) : ~MatchesExtensionPattern(extensionFilter[i])

(***************************************************************************)
(* Part 9: the tool handlers across codebases                              *)
(***************************************************************************)

\* Bound: audit entries followed for one codebase
MaxAudit == 1

\* the percentages the progress callback reports
Percentages == {0, 50}
\* no percentage (undefined)
NoProgress == -1

\* the message of the collection-count limit, and another error's message
COLLECTION_LIMIT_MESSAGE == "collection limit reached"
ErrorMessages == {"embedding failed", COLLECTION_LIMIT_MESSAGE}

\* the status records of the snapshot manager
NotFound == [status |-> "not_found", progress |-> NoProgress, error |-> "",
             lastProgress |-> NoProgress]
InfoIndexing(p) == [NotFound EXCEPT !.status = "indexing", !.progress = p]
InfoIndexed == [NotFound EXCEPT !.status = "indexed"]
InfoIndexFailed(e, p) == [NotFound EXCEPT !.status = "indexfailed", !.error = e,
                                         !.lastProgress = p]

SetCodebaseIndexing(info, cb, p) == [info EXCEPT ![cb] = InfoIndexing(p)]
SetCodebaseIndexed(info, cb) == [info EXCEPT ![cb] = InfoIndexed]
SetCodebaseIndexFailed(info, cb, e, p) == [info EXCEPT ![cb] = InfoIndexFailed(e, p)]
RemoveIndexedCodebase(info, cb) == [info EXCEPT ![cb] = NotFound]
RemoveCodebaseCompletely(info, cb) == [info EXCEPT ![cb] = NotFound]
GetIndexingProgress(info, cb) ==
    IF info[cb].status = "indexing" THEN info[cb].progress ELSE NoProgress
GetIndexedCodebases(info) == {cb \in Codebases : info[cb].status = "indexed"}
GetIndexingCodebases(info) == {cb \in Codebases : info[cb].status = "indexing"}

\* what the vector database answers during syncIndexedCodebasesFromCloud: whether
\* listCollections returns, and the codebases whose collection's query throws
Clouds == {c \in [listed : BOOLEAN, failing : SUBSET Codebases] :
              ~c.listed => c.failing = {}}

\* the codebases named by the first row of a collection whose query returned
CloudCodebases(cloud) == {cb \in Codebases : cloudRows[cb] = "rows" /\ cb \notin cloud.failing}

\* syncIndexedCodebasesFromCloud: every indexed codebase that no collection's
\* first row names is removed from the snapshot; nothing happens if
\* listCollections throws
SyncIndexedCodebasesFromCloud(info, cloud) ==
    IF ~cloud.listed
    THEN info
    ELSE [cb \in Codebases |->
            IF cb \in GetIndexedCodebases(info) /\ cb \notin CloudCodebases(cloud)
            THEN RemoveIndexedCodebase(info, cb)[cb]
            ELSE info[cb]]

\* the snapshot file after syncIndexedCodebasesFromCloud: saved if hasChanges
SavedAfterCloudSync(info, cloud) ==
    IF SyncIndexedCodebasesFromCloud(info, cloud) # info
    THEN SyncIndexedCodebasesFromCloud(info, cloud)
    ELSE savedSnapshot

NoResult == [tool |-> "none", path |-> "none", vectorStore |-> "ok", text |-> "",
             isError |-> FALSE]
\* a tool's return value: content[0].text and isError, with what the vector store
\* reported to the call
Result(tool, cb, vectorStore, text, isError) ==
    [tool |-> tool, path |-> cb, vectorStore |-> vectorStore, text |-> text,
     isError |-> isError]

ThInit ==
    /\ cloudRows \in [Codebases -> {"none", "rows"}]
    /\ codebaseInfo = [cb \in Codebases |->
                          IF cloudRows[cb] = "rows" THEN InfoIndexed ELSE NotFound]
    /\ savedSnapshot = codebaseInfo
    /\ indexingTask = [cb \in Codebases |-> "none"]
    /\ reportedProgress = [cb \in Codebases |-> NoProgress]
    /\ cachedPaths = {}
    /\ auditTrail = [cb \in Codebases |-> <<>>]
    /\ toolResult = NoResult

ThIdle ==
    /\ ThInit
    /\ cloudRows = [cb \in Codebases |-> "none"]

\* handleIndexCodebase(path: cb, force): the snapshot is synced from the cloud;
\* the call is refused while the codebase is indexing, and when it is indexed
\* unless forced; a forced call removes the codebase from the indexed list and
\* clears its index; the collection limit is checked; then the status becomes
\* indexing(0), the snapshot is saved and background indexing starts (one
\* background task per codebase is followed)
HandleIndexCodebase(cb, cloud, forceReindex, limit) ==
    LET synced == SyncIndexedCodebasesFromCloud(codebaseInfo, cloud)
        removed == IF forceReindex /\ cb \in GetIndexedCodebases(synced)
                   THEN RemoveIndexedCodebase(synced, cb)
                   ELSE synced
    IN  /\ IF cb \in GetIndexingCodebases(synced)
           THEN /\ codebaseInfo' = synced
                /\ savedSnapshot' = SavedAfterCloudSync(codebaseInfo, cloud)
                /\ toolResult' = Result("index_codebase", cb, "ok", "already being indexed", TRUE)
                /\ UNCHANGED <<cloudRows, indexingTask, reportedProgress>>
           ELSE IF ~forceReindex /\ cb \in GetIndexedCodebases(synced)
           THEN /\ codebaseInfo' = synced
                /\ savedSnapshot' = SavedAfterCloudSync(codebaseInfo, cloud)
                /\ toolResult' = Result("index_codebase", cb, "ok", "already indexed", TRUE)
                /\ UNCHANGED <<cloudRows, indexingTask, reportedProgress>>
           ELSE /\ indexingTask[cb] # "running"
                /\ cloudRows' = IF forceReindex THEN [cloudRows EXCEPT ![cb] = "none"]
                                ELSE cloudRows
                /\ IF limit = "ok"
                   THEN /\ codebaseInfo' = SetCodebaseIndexing(removed, cb, 0)
                        /\ savedSnapshot' = codebaseInfo'
                        /\ indexingTask' = [indexingTask EXCEPT ![cb] = "running"]
                        /\ reportedProgress' = [reportedProgress EXCEPT ![cb] = 0]
                        /\ toolResult' = Result("index_codebase", cb, "ok",
                                                "Started background indexing", FALSE)
                   ELSE /\ codebaseInfo' = removed
                        /\ savedSnapshot' = SavedAfterCloudSync(codebaseInfo, cloud)
                        /\ toolResult' =
                              IF limit = "reached"
                              THEN Result("index_codebase", cb, "limit",
                                          COLLECTION_LIMIT_MESSAGE, TRUE)
                              ELSE Result("index_codebase", cb, "error",
                                          "Error validating collection creation", TRUE)
                        /\ UNCHANGED <<indexingTask, reportedProgress>>
        /\ UNCHANGED <<cachedPaths, auditTrail>>
        /\ UNCHANGED notTh

\* indexCodebase's progress callback: setCodebaseIndexing(absolutePath,
\* progress.percentage), and the snapshot is saved if 2 s have passed since the
\* last save; the chunks processed so far are in the collection
IndexingProgress(cb, p, saveDue) ==
    /\ indexingTask[cb] = "running"
    /\ p >= reportedProgress[cb]
    /\ codebaseInfo' = SetCodebaseIndexing(codebaseInfo, cb, p)
    /\ savedSnapshot' = IF saveDue THEN codebaseInfo' ELSE savedSnapshot
    /\ reportedProgress' = [reportedProgress EXCEPT ![cb] = p]
    /\ cloudRows' = [cloudRows EXCEPT ![cb] = IF p > 0 THEN "rows"
                                              ELSE IF @ = "none" THEN "empty" ELSE @]
    /\ UNCHANGED <<indexingTask, cachedPaths, auditTrail, toolResult>>
    /\ UNCHANGED notTh

\* indexCodebase returned: setCodebaseIndexed, clearSyncCache(absolutePath),
\* saveCodebaseSnapshot (a codebase without chunks leaves an empty collection)
IndexingCompletes(cb) ==
    /\ indexingTask[cb] = "running"
    /\ codebaseInfo' = SetCodebaseIndexed(codebaseInfo, cb)
    /\ cachedPaths' = cachedPaths \ {cb}
    /\ savedSnapshot' = codebaseInfo'
    /\ indexingTask' = [indexingTask EXCEPT ![cb] = "resolved"]
    /\ cloudRows' = [cloudRows EXCEPT ![cb] = IF @ = "rows" THEN "rows" ELSE "empty"]
    /\ UNCHANGED <<reportedProgress, auditTrail, toolResult>>
    /\ UNCHANGED notTh

\* startBackgroundIndexing's catch: lastProgress = getIndexingProgress(absolutePath),
\* setCodebaseIndexFailed(absolutePath, errorMessage, lastProgress),
\* saveCodebaseSnapshot; the error is logged and the promise resolves
IndexingThrows(cb, errorMessage) ==
    /\ indexingTask[cb] = "running"
    /\ codebaseInfo' = SetCodebaseIndexFailed(codebaseInfo, cb, errorMessage,
                                              GetIndexingProgress(codebaseInfo, cb))
    /\ savedSnapshot' = codebaseInfo'
    /\ indexingTask' = [indexingTask EXCEPT ![cb] = "resolved"]
    /\ UNCHANGED <<cloudRows, reportedProgress, cachedPaths, auditTrail, toolResult>>
    /\ UNCHANGED notTh

\* handleSearchCode(path: cb): the snapshot is synced from the cloud; a codebase
\* neither indexed nor indexing is refused; the gate (sync: disabled by
\* ENABLE_PRE_SEARCH_SYNC, or what quickSyncCheck and reindexByChange did) writes
\* the codebase's cache entry and deletes it after a successful update; then the
\* search returns results or throws (outcome)
HandleSearchCode(cb, cloud, sync, outcome) ==
    LET synced == SyncIndexedCodebasesFromCloud(codebaseInfo, cloud)
        isIndexed == cb \in GetIndexedCodebases(synced)
        isIndexing == cb \in GetIndexingCodebases(synced)
    IN  /\ codebaseInfo' = synced
        /\ savedSnapshot' = SavedAfterCloudSync(codebaseInfo, cloud)
        /\ IF ~isIndexed /\ ~isIndexing
           THEN /\ toolResult' = Result("search_code", cb, "ok", "not indexed", TRUE)
                /\ UNCHANGED cachedPaths
           ELSE /\ cachedPaths' = IF isIndexed /\ sync \in {"clean", "updateFails"}
                                  THEN cachedPaths \cup {cb}
                                  ELSE IF isIndexed /\ sync = "changes"
                                  THEN cachedPaths \ {cb}
                                  ELSE cachedPaths
                /\ toolResult' =
                      CASE outcome = "results" ->
                              Result("search_code", cb, "ok", "Found results", FALSE)
                        [] outcome = "limit" ->
                              Result("search_code", cb, "limit", COLLECTION_LIMIT_MESSAGE, FALSE)
                        [] OTHER ->
                              Result("search_code", cb, "error", "Error searching code", TRUE)
        /\ UNCHANGED <<cloudRows, indexingTask, reportedProgress, auditTrail>>
        /\ UNCHANGED notTh

\* handleClearIndex(path: cb): "No codebases ..." if nothing is indexed or
\* indexing; refused unless the codebase is; if context.clearIndex throws (clear:
\* what it throws) the inner catch returns `Failed to clear ...` as an error; else
\* removeCodebaseCompletely and saveCodebaseSnapshot
HandleClearIndex(cb, clear) ==
    /\ IF GetIndexedCodebases(codebaseInfo) \cup GetIndexingCodebases(codebaseInfo) = {}
       THEN /\ toolResult' = Result("clear_index", cb, "ok", "No codebases", FALSE)
            /\ UNCHANGED <<codebaseInfo, savedSnapshot, cloudRows>>
       ELSE IF cb \notin GetIndexedCodebases(codebaseInfo) \cup GetIndexingCodebases(codebaseInfo)
       THEN /\ toolResult' = Result("clear_index", cb, "ok", "not indexed", TRUE)
            /\ UNCHANGED <<codebaseInfo, savedSnapshot, cloudRows>>
       ELSE IF clear # "ok"
       THEN /\ toolResult' = Result("clear_index", cb, clear, "Failed to clear", TRUE)
            /\ UNCHANGED <<codebaseInfo, savedSnapshot, cloudRows>>
       ELSE /\ codebaseInfo' = RemoveCodebaseCompletely(codebaseInfo, cb)
            /\ savedSnapshot' = codebaseInfo'
            /\ cloudRows' = [cloudRows EXCEPT ![cb] = "none"]
            /\ toolResult' = Result("clear_index", cb, "ok", "Successfully cleared", FALSE)
    /\ UNCHANGED <<indexingTask, reportedProgress, cachedPaths, auditTrail>>
    /\ UNCHANGED notTh

\* the counts reindexByChange returns
SyncResults == {[added |-> 0, modified |-> 0, removed |-> 0],
                [added |-> 1, modified |-> 0, removed |-> 1]}

SyncNowFaults == {"none", "noPath", "throws"}

\* the entry handleSyncNow logs: logSyncOperation(path, 'sync_now', result, syncTime, 'manual')
SyncNowEntry(result) == [operation |-> "sync_now", result |-> result, trigger |-> "manual"]

\* the operation is logged before reindexByChange is awaited
HandleSyncNow_LogFirst(cb, fault, result) ==
    /\ Len(auditTrail[cb]) < MaxAudit
    /\ IF fault = "noPath"
       THEN /\ toolResult' = Result("sync_now", cb, "ok", "does not exist", TRUE)
            /\ UNCHANGED <<auditTrail, cachedPaths>>
       ELSE IF cloudRows[cb] = "none"
       THEN /\ toolResult' = Result("sync_now", cb, "ok", "not indexed", TRUE)
            /\ UNCHANGED <<auditTrail, cachedPaths>>
       ELSE /\ auditTrail' = [auditTrail EXCEPT ![cb] = LogSyncOperation(@, SyncNowEntry(result))]
            /\ IF fault = "throws"
               THEN /\ toolResult' = Result("sync_now", cb, "error", "Error during manual sync", TRUE)
                    /\ UNCHANGED cachedPaths
               ELSE /\ cachedPaths' = cachedPaths \ {cb}
                    /\ toolResult' = Result("sync_now", cb, "ok", "Manual sync completed", FALSE)
    /\ UNCHANGED <<codebaseInfo, savedSnapshot, cloudRows, indexingTask, reportedProgress>>
    /\ UNCHANGED notTh

\* handleSyncNow(cb). fault: the path does not exist ("noPath"), reindexByChange
\* throws ("throws") or neither ("none"); result: what reindexByChange returns
HandleSyncNow(cb, fault, result) ==
    /\ Len(auditTrail[cb]) < MaxAudit
    /\ IF fault = "noPath"
       THEN /\ toolResult' = Result("sync_now", cb, "ok", "does not exist", TRUE)
            /\ UNCHANGED <<auditTrail, cachedPaths>>
       ELSE IF cloudRows[cb] = "none"
       THEN /\ toolResult' = Result("sync_now", cb, "ok", "not indexed", TRUE)
            /\ UNCHANGED <<auditTrail, cachedPaths>>
       ELSE IF fault = "throws"
       THEN /\ toolResult' = Result("sync_now", cb, "error", "Error during manual sync", TRUE)
            /\ UNCHANGED <<auditTrail, cachedPaths>>
       ELSE /\ auditTrail' = [auditTrail EXCEPT ![cb] = LogSyncOperation(@, SyncNowEntry(result))]
            /\ cachedPaths' = cachedPaths \ {cb}
            /\ toolResult' = Result("sync_now", cb, "ok", "Manual sync completed", FALSE)
    /\ UNCHANGED <<codebaseInfo, savedSnapshot, cloudRows, indexingTask, reportedProgress>>
    /\ UNCHANGED notTh

\* a watcher event for a file of cb, processed: updateSingleFile replaces the
\* file's chunks in the codebase's collection (rowsLeft: whether any row is left)
WatcherEvent(cb, rowsLeft) ==
    /\ cloudRows[cb] # "none"
    /\ cloudRows' = [cloudRows EXCEPT ![cb] = IF rowsLeft THEN "rows" ELSE "empty"]
    /\ UNCHANGED <<codebaseInfo, savedSnapshot, indexingTask, reportedProgress, cachedPaths,
                   auditTrail, toolResult>>
    /\ UNCHANGED notTh

\* a tool call, a background indexing step or a watcher event for codebase cb
CallFor(cb) ==
    \/ \E cloud \in Clouds, forceReindex \in BOOLEAN, limit \in {"ok", "reached", "throws"} :
          HandleIndexCodebase(cb, cloud, forceReindex, limit)
    \/ \E p \in Percentages, saveDue \in BOOLEAN : IndexingProgress(cb, p, saveDue)
    \/ IndexingCompletes(cb)
    \/ \E errorMessage \in ErrorMessages : IndexingThrows(cb, errorMessage)
    \/ \E cloud \in Clouds, sync \in {"disabled", "clean", "changes", "updateFails"},
          outcome \in {"results", "limit", "throws"} : HandleSearchCode(cb, cloud, sync, outcome)
    \/ \E clear \in {"ok", "limit", "error"} : HandleClearIndex(cb, clear)
    \/ \E fault \in SyncNowFaults, result \in SyncResults : HandleSyncNow(cb, fault, result)
    \/ \E rowsLeft \in BOOLEAN : WatcherEvent(cb, rowsLeft)

\* the tools of one codebase
ToolsNext ==
    \/ \E cloud \in Clouds, forceReindex \in BOOLEAN, limit \in {"ok", "reached", "throws"} :
          HandleIndexCodebase("cb", cloud, forceReindex, limit)
    \/ \E p \in Percentages, saveDue \in BOOLEAN : IndexingProgress("cb", p, saveDue)
    \/ IndexingCompletes("cb")
    \/ \E errorMessage \in ErrorMessages : IndexingThrows("cb", errorMessage)
    \/ \E cloud \in Clouds, sync \in {"disabled", "clean", "changes", "updateFails"},
          outcome \in {"results", "limit", "throws"} :
          HandleSearchCode("cb", cloud, sync, outcome)
    \/ \E clear \in {"ok", "limit", "error"} : HandleClearIndex("cb", clear)
    \/ \E rowsLeft \in BOOLEAN : WatcherEvent("cb", rowsLeft)

\* the tools and the watcher of every codebase
CodebasesNext ==
    \/ \E cb \in Codebases, cloud \in Clouds, forceReindex \in BOOLEAN :
          HandleIndexCodebase(cb, cloud, forceReindex, "ok")
    \/ \E cb \in Codebases : IndexingCompletes(cb)
    \/ \E cb \in Codebases, cloud \in {c \in Clouds : c.failing = {}},
          sync \in {"clean", "changes"} : HandleSearchCode(cb, cloud, sync, "results")
    \/ \E cb \in Codebases : HandleClearIndex(cb, "ok")
    \/ \E cb \in Codebases, fault \in SyncNowFaults, result \in SyncResults :
          HandleSyncNow(cb, fault, result)
    \/ \E cb \in Codebases, rowsLeft \in BOOLEAN : WatcherEvent(cb, rowsLeft)

\* C24: when the vector store reports that the collection-count limit is reached,
\* each of index_codebase, search_code and clear_index returns the collection-limit
\* message as a non-error result (isError not set).
C24_LimitMessageIsNotAnError ==
    (toolResult.tool \in {"index_codebase", "search_code", "clear_index"}
        /\ toolResult.vectorStore = "limit") =>
        (toolResult.text = COLLECTION_LIMIT_MESSAGE /\ ~toolResult.isError)

\* C25: index_codebase for a codebase that is indexing, or that is indexed when
\* force is false, returns an error result, starts no background indexing and
\* leaves the codebase's status record (status and progress) unchanged.
C25_IndexRejectedWhileIndexingOrIndexed ==
    [][\A cb \in Codebases, cloud \in Clouds, forceReindex \in BOOLEAN,
          limit \in {"ok", "reached", "throws"} :
          (/\ HandleIndexCodebase(cb, cloud, forceReindex, limit)
           /\ \/ codebaseInfo[cb].status = "indexing"
              \/ codebaseInfo[cb].status = "indexed" /\ ~forceReindex) =>
             /\ toolResult'.isError
             /\ indexingTask'[cb] = indexingTask[cb]
             /\ codebaseInfo'[cb] = codebaseInfo[cb]]_vars

\* C26: when background indexing throws, the codebase's status becomes failed with
\* the error message and the last reported progress percentage, the snapshot
\* holds that status, and the background task's promise resolves; an
\* index_codebase call on a failed codebase that passes the limit check starts
\* indexing again.
C26_FailureRecordedWithLastProgress ==
    [][\A cb \in Codebases :
          /\ \A errorMessage \in ErrorMessages :
                IndexingThrows(cb, errorMessage) =>
                   /\ codebaseInfo'[cb] = InfoIndexFailed(errorMessage, reportedProgress[cb])
                   /\ savedSnapshot'[cb] = codebaseInfo'[cb]
                   /\ indexingTask'[cb] = "resolved"
          /\ \A cloud \in Clouds, forceReindex \in BOOLEAN :
                (codebaseInfo[cb].status = "indexfailed"
                    /\ HandleIndexCodebase(cb, cloud, forceReindex, "ok")) =>
                   /\ codebaseInfo'[cb] = InfoIndexing(0)
                   /\ indexingTask'[cb] = "running"
                   /\ ~toolResult'.isError]_vars

\* C28: a tool call, a background indexing step or a watcher event for one
\* codebase leaves every other codebase's status record, sync cache entry and
\* audit history unchanged.
C28_OtherCodebasesUnchanged ==
    [][\A a \in Codebases :
          CallFor(a) =>
             \A b \in Codebases \ {a} :
                /\ codebaseInfo'[b] = codebaseInfo[b]
                /\ (b \in cachedPaths') = (b \in cachedPaths)
                /\ auditTrail'[b] = auditTrail[b]]_vars

\* sync_now calls among the searches, the watcher events and the clear_index
\* calls of every codebase
SyncNowCallsNext ==
    \/ \E cb \in Codebases, fault \in SyncNowFaults, result \in SyncResults :
          HandleSyncNow(cb, fault, result)
    \/ \E cb \in Codebases, cloud \in {c \in Clouds : c.failing = {}},
          sync \in {"clean", "changes"} : HandleSearchCode(cb, cloud, sync, "results")
    \/ \E cb \in Codebases : HandleClearIndex(cb, "ok")
    \/ \E cb \in Codebases, rowsLeft \in BOOLEAN : WatcherEvent(cb, rowsLeft)

\* C34: sync_now on a codebase that has an index and whose reindexByChange
\* succeeds appends exactly one audit entry (operation sync_now, trigger manual,
\* the counts reindexByChange returned) and deletes the codebase's sync cache
\* entry; when the path does not exist, the codebase has no index or
\* reindexByChange throws, it returns an error result, appends no entry and
\* leaves the sync cache as it was.
C34_SyncNowAuditAndCache ==
    [][\A cb \in Codebases, fault \in SyncNowFaults, result \in SyncResults :
          HandleSyncNow(cb, fault, result) =>
             IF fault = "none" /\ cloudRows[cb] # "none"
             THEN /\ ~toolResult'.isError
                  /\ auditTrail'[cb] = Append(auditTrail[cb], SyncNowEntry(result))
                  /\ \A b \in Codebases \ {cb} : auditTrail'[b] = auditTrail[b]
                  /\ cachedPaths' = cachedPaths \ {cb}
             ELSE /\ toolResult'.isError
                  /\ auditTrail' = auditTrail
                  /\ cachedPaths' = cachedPaths]_vars

C34_Witness ==
    /\ toolResult.tool = "sync_now" /\ ~toolResult.isError
    /\ \E cb \in Codebases :
          /\ toolResult.path = cb
          /\ auditTrail[cb] = <<SyncNowEntry([added |-> 1, modified |-> 0, removed |-> 1])>>
          /\ cb \notin cachedPaths
          /\ cachedPaths # {}

\* C36: an index_codebase call that returns an error result leaves the
\* codebase's status record and its vector-store collection as they were before
\* the call, also when force is true.
C36_RejectedIndexCallChangesNothing ==
    [][\A cb \in Codebases, cloud \in Clouds, forceReindex \in BOOLEAN,
          limit \in {"ok", "reached", "throws"} :
          (HandleIndexCodebase(cb, cloud, forceReindex, limit) /\ toolResult'.isError) =>
             /\ codebaseInfo'[cb] = codebaseInfo[cb]
             /\ cloudRows'[cb] = cloudRows[cb]]_vars

(***************************************************************************)
(* Part 10: the freshness gate under concurrent search_code calls          *)
(***************************************************************************)

\* Bound: change checks and index updates followed in one cache window
MaxInWindow == 2

\* the search_code calls in flight on the codebase
Searchers == {"s1", "s2"}

\* time, capped at the cache's time to live
Later(t) == Min(t + TickMs, SYNC_CACHE_TTL)

GateInit ==
    /\ gCache = NoEntry
    /\ gPc = [s \in Searchers |-> "idle"]
    /\ gElapsed = [s \in Searchers |-> 0]
    /\ gChanged = FALSE
    /\ winAge = SYNC_CACHE_TTL
    /\ winChecks = 0
    /\ winReindexes = 0

\* a change check starts: it opens a cache window unless one is open
CheckStarts ==
    IF winAge >= SYNC_CACHE_TTL
    THEN winAge' = 0 /\ winChecks' = 1 /\ winReindexes' = 0
    ELSE winChecks' = winChecks + 1 /\ UNCHANGED <<winAge, winReindexes>>

\* handleSearchCode on the indexed codebase (synchronizer registered) enters
\* quickSyncCheck: an entry younger than 2 s answers from the cache; else the
\* change check is awaited
GateEnter(s) ==
    /\ gPc[s] = "idle"
    /\ winChecks < MaxInWindow
    /\ IF CacheHit(gCache)
       THEN /\ gPc' = [gPc EXCEPT ![s] = IF gCache.hasChanges THEN "reindexWait"
                                         ELSE "searching"]
            /\ UNCHANGED <<winAge, winChecks, winReindexes>>
       ELSE /\ gPc' = [gPc EXCEPT ![s] = "checking"]
            /\ CheckStarts
    /\ gElapsed' = [gElapsed EXCEPT ![s] = 0]
    /\ UNCHANGED <<gCache, gChanged>>
    /\ UNCHANGED notG

\* the change check returned: it has stored the new hashes; the result is cached
\* with the timestamp read when quickSyncCheck began
GateCheckDone(s) ==
    /\ gPc[s] = "checking"
    /\ gCache' = [present |-> TRUE, age |-> gElapsed[s], hasChanges |-> gChanged]
    /\ gChanged' = FALSE
    /\ gPc' = [gPc EXCEPT ![s] = IF gChanged THEN "reindexWait" ELSE "searching"]
    /\ UNCHANGED <<gElapsed, winAge, winChecks, winReindexes>>
    /\ UNCHANGED notG

\* the change check threw: "no changes" is cached
GateCheckThrows(s) ==
    /\ gPc[s] = "checking"
    /\ gCache' = [present |-> TRUE, age |-> gElapsed[s], hasChanges |-> FALSE]
    /\ gPc' = [gPc EXCEPT ![s] = "searching"]
    /\ UNCHANGED <<gElapsed, gChanged, winAge, winChecks, winReindexes>>
    /\ UNCHANGED notG

\* syncResult.hasChanges: await this.context.reindexByChange(absolutePath) begins
GateReindexBegin(s) ==
    /\ gPc[s] = "reindexWait"
    /\ winReindexes < MaxInWindow
    /\ gPc' = [gPc EXCEPT ![s] = "reindexing"]
    /\ winReindexes' = winReindexes + 1
    /\ UNCHANGED <<gCache, gElapsed, gChanged, winAge, winChecks>>
    /\ UNCHANGED notG

\* the index update returned (this.lastSyncCache.delete(absolutePath)), or threw
\* (a warning): the search goes on
GateReindexEnd(s, threw) ==
    /\ gPc[s] = "reindexing"
    /\ gCache' = IF threw THEN gCache ELSE NoEntry
    /\ gPc' = [gPc EXCEPT ![s] = "searching"]
    /\ UNCHANGED <<gElapsed, gChanged, winAge, winChecks, winReindexes>>
    /\ UNCHANGED notG

\* the search ran and the handler returned
GateSearchDone(s) ==
    /\ gPc[s] = "searching"
    /\ gPc' = [gPc EXCEPT ![s] = "idle"]
    /\ UNCHANGED <<gCache, gElapsed, gChanged, winAge, winChecks, winReindexes>>
    /\ UNCHANGED notG

\* a file of the codebase is written
GateTreeChanges ==
    /\ ~gChanged
    /\ gChanged' = TRUE
    /\ UNCHANGED <<gCache, gPc, gElapsed, winAge, winChecks, winReindexes>>
    /\ UNCHANGED notG

\* TickMs pass
GateTick ==
    /\ winAge < SYNC_CACHE_TTL \/ \E s \in Searchers : gPc[s] = "checking" /\ gElapsed[s] < SYNC_CACHE_TTL
    /\ gCache' = IF gCache.present THEN [gCache EXCEPT !.age = Later(@)] ELSE gCache
    /\ gElapsed' = [s \in Searchers |-> IF gPc[s] = "checking" THEN Later(gElapsed[s])
                                        ELSE gElapsed[s]]
    /\ winAge' = Later(winAge)
    /\ UNCHANGED <<gPc, gChanged, winChecks, winReindexes>>
    /\ UNCHANGED notG

GateNext ==
    \/ \E s \in Searchers : GateEnter(s)
    \/ \E s \in Searchers : GateCheckDone(s)
    \/ \E s \in Searchers : GateCheckThrows(s)
    \/ \E s \in Searchers : GateReindexBegin(s)
    \/ \E s \in Searchers, threw \in BOOLEAN : GateReindexEnd(s, threw)
    \/ \E s \in Searchers : GateSearchDone(s)
    \/ GateTreeChanges
    \/ GateTick

\* C33: among the search_code calls on one indexed codebase within one 2 s cache
\* window (opened by a change check), at most one change check and at most one
\* reindexByChange are started.
C33_GateCallsCoalesce == winChecks <= 1 /\ winReindexes <= 1

(***************************************************************************)
(* Part 11: enable_realtime_sync and disable_realtime_sync                 *)
(***************************************************************************)

RtInit == realtimeSync = {}

\* the tool result and the watchers change, nothing else
RtUnchanged ==
    /\ UNCHANGED <<codebaseInfo, savedSnapshot, cloudRows, indexingTask, reportedProgress,
                   cachedPaths, auditTrail>>
    /\ UNCHANGED <<afuVars, wVars, sVars, bdVars, bfuVars, poolVars, watcherErrorLogged,
                   efVars, gVars, keyVars>>

\* Context.enableRealtimeSync(cb): nothing if the codebase has a watcher; else a
\* FileSystemWatcher is created, enabled and recorded
EnableRealtimeSync(watchers, cb) == watchers \cup {cb}

\* Context.disableRealtimeSync(cb): the codebase's watcher, if any, is disabled
\* and forgotten
DisableRealtimeSync(watchers, cb) == watchers \ {cb}

\* the index is not asked for
HandleEnableRealtimeSync_NoIndexCheck(cb, pathExists, enableThrows) ==
    /\ IF ~pathExists
       THEN /\ toolResult' = Result("enable_realtime_sync", cb, "ok", "does not exist", TRUE)
            /\ UNCHANGED realtimeSync
       ELSE IF enableThrows /\ cb \notin realtimeSync
       THEN /\ toolResult' = Result("enable_realtime_sync", cb, "ok", "Error enabling", TRUE)
            /\ UNCHANGED realtimeSync
       ELSE /\ realtimeSync' = EnableRealtimeSync(realtimeSync, cb)
            /\ toolResult' = Result("enable_realtime_sync", cb, "ok", "enabled", FALSE)
    /\ RtUnchanged

\* handleEnableRealtimeSync(path: cb): refused if the path does not exist or
\* context.hasIndex is false; an exception of enableRealtimeSync (enableThrows;
\* only a new watcher is set up) is returned as an error
HandleEnableRealtimeSync(cb, pathExists, enableThrows) ==
    /\ IF ~pathExists
       THEN /\ toolResult' = Result("enable_realtime_sync", cb, "ok", "does not exist", TRUE)
            /\ UNCHANGED realtimeSync
       ELSE IF cloudRows[cb] = "none"
       THEN /\ toolResult' = Result("enable_realtime_sync", cb, "ok", "must be indexed", TRUE)
            /\ UNCHANGED realtimeSync
       ELSE IF enableThrows /\ cb \notin realtimeSync
       THEN /\ toolResult' = Result("enable_realtime_sync", cb, "ok", "Error enabling", TRUE)
            /\ UNCHANGED realtimeSync
       ELSE /\ realtimeSync' = EnableRealtimeSync(realtimeSync, cb)
            /\ toolResult' = Result("enable_realtime_sync", cb, "ok", "enabled", FALSE)
    /\ RtUnchanged

\* handleDisableRealtimeSync(path: cb): no test of the path or of the index
HandleDisableRealtimeSync(cb) ==
    /\ realtimeSync' = DisableRealtimeSync(realtimeSync, cb)
    /\ toolResult' = Result("disable_realtime_sync", cb, "ok", "disabled", FALSE)
    /\ RtUnchanged

\* the realtime sync tools among the clear_index calls and the watcher events
RealtimeNext ==
    \/ \E cb \in Codebases, pathExists \in BOOLEAN, enableThrows \in BOOLEAN :
          HandleEnableRealtimeSync(cb, pathExists, enableThrows)
    \/ \E cb \in Codebases : HandleDisableRealtimeSync(cb)
    \/ \E cb \in Codebases : HandleClearIndex(cb, "ok")
    \/ \E cb \in Codebases, rowsLeft \in BOOLEAN : WatcherEvent(cb, rowsLeft)

KeyAdapters == {"a1", "a2"}

\* MilvusConfig: address, username and token ("" when not given)
Configs == [address : {"", "h1"}, username : {"", "u1"}, token : {"", "t1", "t2"}]

NoConfig == [address |-> "none", username |-> "none", token |-> "none"]

\* generateInstanceKey: `${address || 'default'}_${username || 'default'}_${token ?
\* 'token' : 'notoken'}`, base64-encoded (the encoding is one-to-one; the three
\* parts joined by '_' are kept as a tuple)
GenerateInstanceKey(config) ==
    <<IF config.address # "" THEN config.address ELSE "default",
      IF config.username # "" THEN config.username ELSE "default",
      IF config.token # "" THEN "token" ELSE "notoken">>

InstanceKeys == {GenerateInstanceKey(c) : c \in Configs}

\* ClusterManager.getAddressFromToken: the address of the token's cluster
GetAddressFromToken(token) == IF token = "t1" THEN "c1" ELSE "c2"

\* resolveAddress: the configured address, else the address of the token's
\* cluster, else it throws ("")
ResolveAddress(config) ==
    IF config.address # "" THEN config.address
    ELSE IF config.token # "" THEN GetAddressFromToken(config.token)
    ELSE ""

NoClient == [address |-> "none", username |-> "none", token |-> "none", key |-> <<>>]

\* new MilvusClient({address, username, token, ...}), pooled under a key
NewClient(address, config, key) ==
    [address |-> address, username |-> config.username, token |-> config.token, key |-> key]

KeyIdle ==
    /\ adConfig = [a \in KeyAdapters |-> NoConfig]
    /\ adClient = [a \in KeyAdapters |-> NoClient]
    /\ pooledClient = [k \in InstanceKeys |-> NoClient]

\* new MilvusVectorDatabase(config): this.config and this.instanceKey are set
KeyConstruct(a, config) ==
    /\ adConfig[a] = NoConfig
    /\ adConfig' = [adConfig EXCEPT ![a] = config]
    /\ UNCHANGED <<adClient, pooledClient>>
    /\ UNCHANGED notKey

\* initialize(): resolveAddress, then getPooledClient(address): the entry of the
\* adapter's key is reused, else a client is created from this.config and pooled
KeyInitialize(a) ==
    /\ adConfig[a] # NoConfig
    /\ adClient[a] = NoClient
    /\ ResolveAddress(adConfig[a]) # ""
    /\ LET key == GenerateInstanceKey(adConfig[a])
           client == IF pooledClient[key] # NoClient THEN pooledClient[key]
                     ELSE NewClient(ResolveAddress(adConfig[a]), adConfig[a], key)
       IN  /\ adClient' = [adClient EXCEPT ![a] = client]
           /\ pooledClient' = [pooledClient EXCEPT ![key] = client]
    /\ UNCHANGED adConfig
    /\ UNCHANGED notKey

\* the owner drops the adapter; its pool entry stays (releasePooledClient has no
\* caller and an entry in use is not reaped)
KeyDrop(a) ==
    /\ adConfig[a] # NoConfig
    /\ adConfig' = [adConfig EXCEPT ![a] = NoConfig]
    /\ adClient' = [adClient EXCEPT ![a] = NoClient]
    /\ UNCHANGED pooledClient
    /\ UNCHANGED notKey

KeyNext ==
    \/ \E a \in KeyAdapters, config \in Configs : KeyConstruct(a, config)
    \/ \E a \in KeyAdapters : KeyInitialize(a)
    \/ \E a \in KeyAdapters : KeyDrop(a)

\* C39: two adapters hold the same pooled client only if their configurations
\* agree on the (resolved) address, the username and the value of the token.
C39_SharedClientSameCredentials ==
    \A a, b \in KeyAdapters :
        (adClient[a] # NoClient /\ adClient[a] = adClient[b]) =>
            /\ ResolveAddress(adConfig[a]) = ResolveAddress(adConfig[b])
            /\ adConfig[a].username = adConfig[b].username
            /\ adConfig[a].token = adConfig[b].token

(***************************************************************************)
(* Specifications                                                          *)
(***************************************************************************)

SIdle ==
    /\ SInit
    /\ status = "not_found"
    /\ disk = [f \in Files |-> NoFile]

InitAFU == AfuInit /\ WInit /\ SIdle /\ BdIdle /\ BfuIdle /\ PoolInit /\ EfIdle /\ ThIdle /\ GateInit /\ RtInit /\ KeyIdle

SpecAFU == InitAFU /\ [][AfuNext]_vars

\* one call on a collection that holds rows of the updated path only; every
\* awaited store call returns or throws, and the backoff delay passes
InitAFUCall ==
    /\ InitAFU
    /\ \A c \in ChunkIds : collection[c] = (IF c.path = afuPath THEN collection[c] ELSE "absent")
    /\ \A c \in ChunkIds : collection[c] # "empty"

SpecAFUCall == InitAFUCall /\ [][AfuCallNext]_vars /\ WF_vars(AfuCallNext)

WAfuIdle ==
    /\ collection = [c \in ChunkIds |-> "absent"]
    /\ afuPath = "p"
    /\ newChunks = {}
    /\ maxRetries = 0
    /\ afuPc = "idle"
    /\ attempt = 0
    /\ backupChunks = {}
    /\ afuResult = "none"
    /\ chunksProcessed = 0
    /\ preCall = collection
    /\ rollbacks = 0
    /\ rollbackFailed = FALSE
    /\ readerSaw = [read |-> FALSE, ids |-> {}]

InitWatcher == WInit /\ WAfuIdle /\ SIdle /\ BdIdle /\ BfuIdle /\ PoolInit /\ EfIdle /\ ThIdle /\ GateInit /\ RtInit /\ KeyIdle

SpecWatcher == InitWatcher /\ [][WNext]_vars

InitSync == SInit /\ WInit /\ WAfuIdle /\ BdIdle /\ BfuIdle /\ PoolInit /\ EfIdle /\ ThIdle /\ GateInit /\ RtInit /\ KeyIdle

SpecSync == InitSync /\ [][SNext]_vars

SpecAudit == InitSync /\ [][AuditNext]_vars

SpecLifecycle == InitSync /\ [][LifecycleNext]_vars

InitHistory == SIdle /\ WInit /\ WAfuIdle /\ BdIdle /\ BfuIdle /\ PoolInit /\ EfIdle /\ ThIdle /\ GateInit /\ RtInit /\ KeyIdle

SpecHistory == InitHistory /\ [][HistoryNext]_vars

InitBulkDelete == BdInit /\ WInit /\ WAfuIdle /\ SIdle /\ BfuIdle /\ PoolInit /\ EfIdle /\ ThIdle /\ GateInit /\ RtInit /\ KeyIdle

SpecBulkDelete == InitBulkDelete /\ [][BdNext]_vars

InitBatchUpdates == BfuInit /\ WInit /\ WAfuIdle /\ SIdle /\ BdIdle /\ PoolInit /\ EfIdle /\ ThIdle /\ GateInit /\ RtInit /\ KeyIdle

SpecBatchUpdates == InitBatchUpdates /\ [][BfuNext]_vars

InitPool == PoolInit /\ WInit /\ WAfuIdle /\ SIdle /\ BdIdle /\ BfuIdle /\ EfIdle /\ ThIdle /\ GateInit /\ RtInit /\ KeyIdle

SpecPool == InitPool /\ [][PoolNext]_vars

\* the reaper's timer keeps firing
SpecPoolFair ==
    InitPool /\ [][PoolNext]_vars /\ WF_vars(PoolTimePasses) /\ WF_vars(CleanupConnectionPool)

SpecPoolCalls == InitPool /\ [][PoolCallsNext]_vars

SpecWatcherErrors == InitWatcher /\ [][WErrorNext]_vars

InitExtensionFilter ==
    EfInit /\ WInit /\ WAfuIdle /\ SIdle /\ BdIdle /\ BfuIdle /\ PoolInit /\ ThIdle /\ GateInit /\ RtInit /\ KeyIdle

SpecExtensionFilter == InitExtensionFilter /\ [][EfNext]_vars

InitTools == ThInit /\ WInit /\ WAfuIdle /\ SIdle /\ BdIdle /\ BfuIdle /\ PoolInit /\ EfIdle /\ GateInit /\ RtInit /\ KeyIdle

SpecTools == InitTools /\ [][ToolsNext]_vars

SpecCodebases == InitTools /\ [][CodebasesNext]_vars

InitGate ==
    GateInit /\ WInit /\ WAfuIdle /\ SIdle /\ BdIdle /\ BfuIdle /\ PoolInit /\ EfIdle /\ ThIdle /\ RtInit /\ KeyIdle

SpecGate == InitGate /\ [][GateNext]_vars

SpecSyncNow == InitTools /\ [][SyncNowCallsNext]_vars

SpecRealtime == InitTools /\ [][RealtimeNext]_vars

InitKeys ==
    KeyIdle /\ WInit /\ WAfuIdle /\ SIdle /\ BdIdle /\ BfuIdle /\ PoolInit /\ EfIdle /\ ThIdle /\ GateInit /\ RtInit

SpecKeys == InitKeys /\ [][KeyNext]_vars

====
